---- MODULE Spec2Model ----
(***************************************************************************)
(* Model of the vibe workspace/session orchestrator (src/src/vibe) and of  *)
(* the legacy single-file implementation (src/vibe/cli.py).                *)
(*                                                                         *)
(* Text is modelled structurally.  A branch name is a sequence of tokens   *)
(* (each token stands for a run of characters of one class); a directory   *)
(* path is the whitespace-separated words of the repository root plus the  *)
(* chain of worktree names below it, so that the two ways the code parses  *)
(* `git worktree list --porcelain` (split()[1] and split(maxsplit=1)[1])   *)
(* are different functions of a path.                                      *)
(***************************************************************************)
EXTENDS Integers, Sequences, FiniteSets, TLC

\* ------------------------------------------------------------------------
\* Bounds of the model
\* ------------------------------------------------------------------------
\* number of command-line invocations in one behaviour
MaxRuns == 2
\* length (in tokens) of a raw branch-namer reply
MaxRawLen == 2
\* length (in tokens) of a branch name given explicitly
MaxNameLen == 1
\* depth of nesting of worktrees below the repository root
MaxDepth == 1
\* number of changes made to the workspaces by hand or by agents
MaxEdits == 1

\* ------------------------------------------------------------------------
\* Names
\* ------------------------------------------------------------------------
NoneVal == <<"None">>

\* tokens a raw reply / explicit name is made of: an alphanumeric run, an
\* upper-case run, a hyphen, and a character git's ref grammar rejects
RawAlphabet == {"a", "A", "-", "~"}

AlnumTokens == {"a", "A", "b", "main", "master", "claude", "codex", "amp"}

RECURSIVE SeqsUpTo(_, _)
SeqsUpTo(S, n) ==
    IF n = 0 THEN {<<>>}
    ELSE LET shorter == SeqsUpTo(S, n - 1)
         IN  shorter \cup {Append(s, x) : s \in {t \in shorter : Len(t) = n - 1}, x \in S}

RawNames == SeqsUpTo(RawAlphabet, MaxRawLen)

\* branch names an operator may pass explicitly
ExplicitAlphabet == {"a", "-", "~"}
ExplicitNames == SeqsUpTo(ExplicitAlphabet, MaxNameLen)

\* order of the tokens as strings; names are compared token by token
TokOrder == <<"-", "A", "a", "amp", "b", "claude", "codex", "main", "master", "nosuch", "~">>
TokRank(tok) == CHOOSE i \in 1..Len(TokOrder) : TokOrder[i] = tok

RECURSIVE NameLess(_, _)
NameLess(x, y) ==
    IF y = <<>> THEN FALSE
    ELSE IF x = <<>> THEN TRUE
    ELSE IF Head(x) = Head(y) THEN NameLess(Tail(x), Tail(y))
    ELSE TokRank(Head(x)) < TokRank(Head(y))

\* sorted(names)
RECURSIVE Sorted(_)
Sorted(S) ==
    IF S = {} THEN <<>>
    ELSE LET least == CHOOSE x \in S : \A y \in S \ {x} : NameLess(x, y)
         IN  <<least>> \o Sorted(S \ {least})

\* str.lower() on one token
Lower(tok) == IF tok = "A" THEN "a" ELSE tok

\* str.lstrip("-_ ") / str.strip("-") on a token sequence
RECURSIVE LStripDash(_)
LStripDash(s) ==
    IF s = <<>> THEN s
    ELSE IF Head(s) = "-" THEN LStripDash(Tail(s)) ELSE s

RECURSIVE RStripDash(_)
RStripDash(s) ==
    IF s = <<>> THEN s
    ELSE IF s[Len(s)] = "-" THEN RStripDash(SubSeq(s, 1, Len(s) - 1)) ELSE s

\* the cleaning loop of sanitize_branch_name: alphanumerics are kept, every
\* run of other characters becomes one hyphen
RECURSIVE CleanLoop(_, _, _)
CleanLoop(s, cleaned, previous_dash) ==
    IF s = <<>> THEN cleaned
    ELSE IF Head(s) \in AlnumTokens
         THEN CleanLoop(Tail(s), Append(cleaned, Head(s)), FALSE)
         ELSE CleanLoop(Tail(s),
                        IF previous_dash THEN cleaned ELSE Append(cleaned, "-"),
                        TRUE)

sanitize_branch_name(name) ==
    LET lowered == LStripDash([i \in 1..Len(name) |-> Lower(name[i])])
    IN  RStripDash(LStripDash(CleanLoop(lowered, <<>>, FALSE)))

\* git check-ref-format --branch, restricted to the model's alphabet: the
\* empty name, a name starting with "-" and a name holding "~" are rejected
git_check_ref_format(name) ==
    /\ name # <<>>
    /\ name # NoneVal
    /\ Head(name) # "-"
    /\ \A i \in 1..Len(name) : name[i] # "~"

validate_branch_name_accepting(branch_name) == TRUE

\* validate_branch_name: does the name pass `git check-ref-format --branch`
validate_branch_name(branch_name) == git_check_ref_format(branch_name)

\* f"{base}-{agent}"
AgentBranch(base, agent) == base \o <<"-", agent>>

\* ------------------------------------------------------------------------
\* Paths
\* ------------------------------------------------------------------------
\* [words |-> whitespace-separated words of the root directory's path,
\*  rel   |-> chain of worktree names: <<>> is the root itself, <<n>> is
\*            <root>/worktrees/n, <<n, m>> is <root>/worktrees/n/worktrees/m]
MkPath(words, rel) == [words |-> words, rel |-> rel]

\* WORKTREE_BASE / branch_name, resolved against the current directory
WorktreePath(dir, branch_name) == MkPath(dir.words, Append(dir.rel, branch_name))

\* Path(line.split()[1]): the text after "worktree " up to the next blank
SplitSecondField(path) ==
    IF Len(path.words) > 1 THEN MkPath(<<path.words[1]>>, <<>>) ELSE path

\* Path(line.split(maxsplit=1)[1]): the whole rest of the line
SplitRestOfLine(path) == path

\* ------------------------------------------------------------------------
\* State
\* ------------------------------------------------------------------------
VARIABLES
    root,         \* words of the repository root's path (fixed by Init)
    branches,     \* refs/heads: set of branch names
    worktrees,    \* git's worktree registry: sequence of [path, branch]
    dirs,         \* directories that exist on disk
    basedirs,     \* directories D for which D/worktrees exists
    dirty,        \* working trees with uncommitted changes
    prompts,      \* stored duo prompt files: set of [dir, base]
    tmux_server,  \* TRUE when a tmux server with a session is running
    sessions,     \* tmux sessions created by the tool, by name
    windows,      \* tmux windows: sequence of [name, alive, panes]
    pc,           \* position of the orchestrator process
    cfg,          \* the invocation's command line / Config
    env,          \* the invocation's environment
    cwd,          \* the process's current directory
    loc,          \* local variables of the running workflow
    exit_code,    \* -1 while running, else the process's exit status
    message,      \* the fatal message printed, if any
    stdin_reads,  \* number of input() calls of this invocation
    vcs_log,      \* VCS-mutating commands issued by this invocation
    runs,         \* number of invocations started
    at_invoke,    \* history: repository and windows when the invocation started
    alloc_prev,   \* history: last successful allocator call
    alloc_chk,    \* history: last allocator call that repeated alloc_prev
    duo_prev,     \* history: last duo run that allocated both workspaces
    edits,        \* history: number of changes made by the environment
    tmpfiles      \* message files made by mkstemp, by name: [content, exists]

gitvars == <<root, branches, worktrees, dirs, basedirs, dirty, prompts>>
tmuxvars == <<tmux_server, sessions, windows>>
procvars == <<pc, cfg, env, cwd, loc, exit_code, message, stdin_reads, vcs_log, runs>>
histvars == <<at_invoke, alloc_prev, alloc_chk, duo_prev, edits>>
vars == <<gitvars, tmuxvars, procvars, histvars, tmpfiles>>

Root == MkPath(root, <<>>)

\* the directory named by the first word of a root path that holds a blank
PrefixDir(words) == MkPath(<<words[1]>>, <<>>)

RootChoices == {<<"/repo">>, <<"/my", "repo">>}
TrunkChoices == {<<"main">>, <<"master">>}

\* ------------------------------------------------------------------------
\* git, as the orchestrator sees it
\* ------------------------------------------------------------------------
Range(s) == {s[i] : i \in 1..Len(s)}

RECURSIVE SelectSeq2(_, _)
SelectSeq2(s, keep) ==
    IF s = <<>> THEN <<>>
    ELSE IF Head(s) \in keep THEN <<Head(s)>> \o SelectSeq2(Tail(s), keep)
         ELSE SelectSeq2(Tail(s), keep)

Registered(path) == \E w \in Range(worktrees) : w.path = path
CheckedOut(branch) == \E w \in Range(worktrees) : w.branch = branch

\* the worktree (registered, on disk) that contains directory d
InRepo(d) == d \in dirs /\ Registered(d)

\* git rev-parse --abbrev-ref HEAD in directory d
HeadBranch(d) == (CHOOSE w \in Range(worktrees) : w.path = d).branch

\* does `ref` name a commit when resolved in directory d
RefResolves(ref, d) == ref \in branches \/ (ref = <<"HEAD">> /\ InRepo(d))

\* git worktree add <path> <branch>
CanWorktreeAdd(path, branch) ==
    /\ branch \in branches
    /\ ~CheckedOut(branch)
    /\ ~Registered(path)
    /\ path \notin dirs

\* git worktree add -b <branch> <path> <ref>, run in directory d
CanWorktreeAddNew(branch, path, ref, d) ==
    /\ git_check_ref_format(branch)
    /\ branch \notin branches
    /\ RefResolves(ref, d)
    /\ ~Registered(path)
    /\ path \notin dirs

\* a failing `git worktree add -b` has already created the branch when it
\* failed only because the target directory exists
BranchLeftBehind(branch, path, ref, d) ==
    /\ git_check_ref_format(branch)
    /\ branch \notin branches
    /\ RefResolves(ref, d)
    /\ ~Registered(path)
    /\ path \in dirs

BranchesAfterFailedAdd(branch, path, ref, d) ==
    IF BranchLeftBehind(branch, path, ref, d) THEN branches \cup {branch} ELSE branches

\* git worktree prune: drop the entries whose directory is gone
Pruned == SelectSeq2(worktrees, {w \in Range(worktrees) : w.path \in dirs})

\* one line of `git worktree list --porcelain`
PorcelainEntry(w) ==
    << [key |-> "worktree", path |-> w.path, ref |-> <<>>],
       [key |-> "HEAD", path |-> w.path, ref |-> <<>>],
       IF w.branch = NoneVal
       THEN [key |-> "detached", path |-> w.path, ref |-> <<>>]
       ELSE [key |-> "branch", path |-> w.path, ref |-> <<"refs/heads/">> \o w.branch] >>

RECURSIVE PorcelainLines(_)
PorcelainLines(reg) ==
    IF reg = <<>> THEN <<>>
    ELSE PorcelainEntry(Head(reg)) \o PorcelainLines(Tail(reg))

\* str.replace("refs/heads/", "") on the text after "branch "
StripRefsHeads(ref) == SelectSeq2(ref, Range(ref) \ {"refs/heads/"})

\* find_existing_worktree: the loop over the porcelain lines
NoPath == MkPath(<<>>, <<>>)

RECURSIVE FindLoop(_, _, _)
FindLoop(lines, current_worktree, branch_name) ==
    IF lines = <<>> THEN NoPath
    ELSE LET line == Head(lines)
         IN  IF line.key = "worktree"
             THEN FindLoop(Tail(lines), SplitSecondField(line.path), branch_name)
             ELSE IF line.key = "branch" /\ StripRefsHeads(line.ref) = branch_name
                  THEN current_worktree
                  ELSE FindLoop(Tail(lines), current_worktree, branch_name)

find_existing_worktree(branch_name) ==
    FindLoop(PorcelainLines(worktrees), NoPath, branch_name)

\* branch_exists: git show-ref --verify refs/heads/<name>
branch_exists(branch_name) == branch_name \in branches

\* ------------------------------------------------------------------------
\* The orchestrator process
\* ------------------------------------------------------------------------
Unset == <<"unset">>

Prompts == {"", "implement phase"}
AgentPairs == {<<"claude", "codex">>, <<"amp", "claude">>}
FromBranches == {NoneVal, <<"nosuch">>}

NoCtx == [form |-> "", branch |-> Unset, dir |-> NoPath, peer |-> "", peer_branch |-> Unset,
          peer_dir |-> NoPath, original |-> ""]

CfgDefault ==
    [cmd |-> "vibe", agent_mode |-> "single", no_worktree |-> FALSE, prompt |-> "",
     from_branch |-> NoneVal, from_master |-> FALSE, branch_name |-> Unset,
     duo_agents |-> <<"claude", "codex">>, review_base |-> NoneVal, review_single |-> FALSE,
     keep |-> "unset", force |-> FALSE, target_branch |-> Unset,
     argv |-> <<>>, agent_cmd |-> "claude", selected_model |-> NoneVal]

\* faults: whether the remote and the tmux server are in a condition in which
\* `git pull --rebase` and `tmux setw` can fail
EnvDefault ==
    [TMUX |-> FALSE, tmux_bin |-> TRUE, tty |-> "unset", faults |-> FALSE, inside |-> FALSE,
     agent_bin |-> TRUE]

NoDuoSame == [valid |-> FALSE, paths |-> <<NoPath, NoPath>>]

\* prompt_agent_selection's None
NoSelection == [mode |-> "", info |-> <<>>]

\* no command line built yet
NoCommand == [kind |-> "", bin |-> "", flags |-> "", message |-> <<>>, cat |-> 0, rm |-> 0]

\* the previous run was not a duo run that failed in its second allocation
NoHalf == [base |-> Unset, agents |-> <<"", "">>, first |-> NoPath]

LocInit ==
    [branch_name |-> Unset, source_ref |-> Unset, agent_idx |-> 0, agents |-> <<"", "">>,
     agent_branch |-> <<Unset, Unset>>, agent_worktree |-> <<NoPath, NoPath>>,
     fn |-> "", arg_branch |-> Unset, existing |-> NoPath, worktree_path |-> NoPath,
     custom |-> Unset, start_point |-> Unset,
     entry_same |-> FALSE, muts |-> 0,
     win_name |-> Unset, ctx |-> <<NoCtx, NoCtx>>,
     window_id |-> 0, left_pane |-> 0, right_pane |-> 0,
     base |-> Unset, repo_root |-> NoPath, keeping |-> 0, task |-> 0,
     duo_same |-> NoDuoSame, original |-> "",
     selection |-> NoSelection, picked |-> "", started |-> <<>>,
     case |-> 0, entry_log |-> 0, tmux_log |-> <<>>, failed |-> {}, half |-> NoHalf,
     command |-> NoCommand, agent_arg |-> <<>>, agent_status |-> -1]

NoMessage == [kind |-> "", names |-> <<>>]
Msg(kind) == [kind |-> kind, names |-> <<>>]

NoAlloc == [name |-> Unset, path |-> NoPath, snap |-> <<>>, custom |-> FALSE]
NoChk == [valid |-> FALSE, first |-> NoPath, second |-> NoPath, muts |-> 0, custom |-> FALSE]
NoDuo == [base |-> Unset, agents |-> <<"", "">>, paths |-> <<NoPath, NoPath>>, snap |-> <<>>]

\* what an earlier duo run (claude and codex) for a base has left behind
EarlierPrompt == "earlier prompt"

RECURSIVE EarlierWorktrees(_, _)
EarlierWorktrees(r, bases) ==
    IF bases = <<>> THEN <<>>
    ELSE << [path |-> WorktreePath(r, AgentBranch(Head(bases), "claude")),
             branch |-> AgentBranch(Head(bases), "claude")],
            [path |-> WorktreePath(r, AgentBranch(Head(bases), "codex")),
             branch |-> AgentBranch(Head(bases), "codex")] >>
         \o EarlierWorktrees(r, Tail(bases))

\* branches without a workspace that the repository may already hold
FeatureBranches == {{}, {<<"a">>}}

\* the state between invocations, n of them counted so far, for a repository
\* that holds the workspaces Made(root directory) and the stored prompts of
\* bases `earlier`
InitRepoAfter(roots, trunks, Made(_), earlier, n) ==
    /\ root \in roots
    /\ \E trunk \in trunks, others \in FeatureBranches :
          LET made == Made(MkPath(root, <<>>))
          IN  /\ branches = {trunk} \cup others \cup {w.branch : w \in Range(made)}
              /\ worktrees = <<[path |-> MkPath(root, <<>>), branch |-> trunk]>> \o made
              /\ dirs \in {{MkPath(root, <<>>)} \cup {w.path : w \in Range(made)} \cup extra :
                              extra \in IF Len(root) > 1 THEN {{}, {PrefixDir(root)}}
                                        ELSE {{}}}
              /\ basedirs = IF made = <<>> THEN {} ELSE {MkPath(root, <<>>)}
              /\ prompts = {[dir |-> MkPath(root, <<>>), base |-> earlier[i],
                              text |-> EarlierPrompt] : i \in 1..Len(earlier)}
    /\ dirty = {}
    /\ tmux_server = FALSE
    /\ sessions = {}
    /\ windows = <<>>
    /\ pc = "idle"
    /\ cfg = CfgDefault
    /\ cwd = MkPath(root, <<>>)
    /\ loc = LocInit
    /\ exit_code = 0
    /\ message = NoMessage
    /\ stdin_reads = 0
    /\ vcs_log = <<>>
    /\ runs = n
    /\ at_invoke = [branches |-> branches, worktrees |-> worktrees, dirs |-> dirs,
                    dirty |-> dirty, windows |-> windows, sessions |-> sessions,
                    prompts |-> prompts]
    /\ alloc_prev = NoAlloc
    /\ alloc_chk = NoChk
    /\ duo_prev = NoDuo
    /\ edits = 0
    /\ tmpfiles = <<>>

\* the state before the first invocation
InitRepo(roots, trunks, Made(_), earlier) == InitRepoAfter(roots, trunks, Made, earlier, 0)

\* ... for a repository that holds the pairs of bases `earlier`
InitWith(roots, trunks, earlier) ==
    InitRepo(roots, trunks, LAMBDA r : EarlierWorktrees(r, earlier), earlier)

\* a repository without workspaces: the trunk, possibly one more branch
Init == InitWith(RootChoices, TrunkChoices, <<>>) /\ env = EnvDefault

\* a repository in which an earlier duo run has left the pair of base b
InitPair == InitWith({<<"/repo">>}, {<<"main">>}, <<<<"b">>>>) /\ env = EnvDefault

\* a repository in which an earlier duo run has left the pair of base a
InitPairA == InitWith({<<"/repo">>}, {<<"main">>}, <<<<"a">>>>) /\ env = EnvDefault

\* a repository whose remote may be unreachable and whose tmux server may
\* refuse to set a window option
InitFaulty ==
    InitWith({<<"/repo">>}, {<<"main">>}, <<>>) /\ env = [EnvDefault EXCEPT !.faults = TRUE]

\* a repository with the pair of base a left by an earlier invocation, whose
\* operator also starts the tool inside the workspaces
InitInside ==
    /\ InitRepoAfter({<<"/repo">>}, {<<"main">>}, LAMBDA r : EarlierWorktrees(r, <<<<"a">>>>),
                     <<<<"a">>>>, MaxRuns - 1)
    /\ env = [EnvDefault EXCEPT !.inside = TRUE]

\* the same repository on a machine where no agent is installed: nothing on
\* PATH is named claude, codex or amp
InitNoAgent ==
    /\ InitRepoAfter({<<"/repo">>}, {<<"main">>}, LAMBDA r : EarlierWorktrees(r, <<<<"a">>>>),
                     <<<<"a">>>>, MaxRuns - 1)
    /\ env = [EnvDefault EXCEPT !.agent_bin = FALSE]

\* the same repository, its operator starting the tool at the root
InitLive ==
    /\ InitRepoAfter({<<"/repo">>}, {<<"main">>}, LAMBDA r : EarlierWorktrees(r, <<<<"a">>>>),
                     <<<<"a">>>>, MaxRuns - 1)
    /\ env = EnvDefault

\* a repository that holds the workspace of claude for base a and none of
\* codex
HalfPair(r) ==
    <<[path |-> WorktreePath(r, AgentBranch(<<"a">>, "claude")),
       branch |-> AgentBranch(<<"a">>, "claude")]>>

InitHalf == InitRepo(RootChoices, {<<"main">>}, HalfPair, <<>>) /\ env = EnvDefault

\* a repository in which `vibe --branch b` was run at the root and then
\* `vibe --branch a` inside the workspace of b, which put the workspace of a
\* at worktrees/b/worktrees/a; or in which branch a has no workspace yet
InitNested ==
    /\ root = <<"/repo">>
    /\ branches = {<<"main">>, <<"b">>, <<"a">>}
    /\ \E nested \in BOOLEAN :
          LET wt_b == WorktreePath(MkPath(root, <<>>), <<"b">>)
              wt_a == WorktreePath(wt_b, <<"a">>)
          IN  /\ worktrees = <<[path |-> MkPath(root, <<>>), branch |-> <<"main">>],
                               [path |-> wt_b, branch |-> <<"b">>]>>
                             \o (IF nested THEN <<[path |-> wt_a, branch |-> <<"a">>]>> ELSE <<>>)
              /\ dirs = {MkPath(root, <<>>), wt_b} \cup (IF nested THEN {wt_a} ELSE {})
              /\ basedirs = {MkPath(root, <<>>)} \cup (IF nested THEN {wt_b} ELSE {})
    /\ prompts = {}
    /\ dirty = {}
    /\ tmux_server = FALSE
    /\ sessions = {}
    /\ windows = <<>>
    /\ pc = "idle"
    /\ cfg = CfgDefault
    /\ env = EnvDefault
    /\ cwd = MkPath(root, <<>>)
    /\ loc = LocInit
    /\ exit_code = 0
    /\ message = NoMessage
    /\ stdin_reads = 0
    /\ vcs_log = <<>>
    /\ runs = 0
    /\ at_invoke = [branches |-> branches, worktrees |-> worktrees, dirs |-> dirs,
                    dirty |-> dirty, windows |-> windows, sessions |-> sessions,
                    prompts |-> prompts]
    /\ alloc_prev = NoAlloc
    /\ alloc_chk = NoChk
    /\ duo_prev = NoDuo
    /\ edits = 0
    /\ tmpfiles = <<>>

\* sys.exit(code) after printing msg, or falling off the end (code 0)
Exit(code, msg) ==
    /\ pc' = "done"
    /\ exit_code' = code
    /\ message' = msg

\* an uncaught subprocess.CalledProcessError: traceback, status 1
Crash == Exit(1, Msg("CalledProcessError"))

\* the operator types a command line; the shell starts the process
Invoke ==
    /\ pc \in {"idle", "done"}
    /\ runs < MaxRuns
    /\ runs' = runs + 1
    /\ \E c \in {"vibe", "review", "merge"}, mode \in {"single", "dual", "review"},
          nw \in BOOLEAN, p \in Prompts, rs \in BOOLEAN, f \in BOOLEAN,
          t \in BOOLEAN, tb \in BOOLEAN :
          \* flags a command does not read stay at their defaults
          /\ c # "vibe" => mode = "single" /\ ~nw /\ p = "" /\ tb
          /\ c # "review" => ~rs
          /\ c # "merge" => ~f
          /\ (c = "vibe" /\ (p = "" \/ ~t \/ ~tb)) => mode = "single" /\ ~nw
          /\ (c = "vibe" /\ mode = "review") => ~nw
          /\ cfg' = [CfgDefault EXCEPT !.cmd = c, !.agent_mode = mode, !.no_worktree = nw,
                                        !.prompt = p, !.review_single = rs, !.force = f]
          /\ env' = [EnvDefault EXCEPT !.TMUX = t, !.tmux_bin = tb, !.faults = env.faults,
                                        !.inside = env.inside,
                                        !.agent_bin = env.agent_bin]
          \* being inside a session means a server is running
          /\ tmux_server' = (tmux_server \/ t)
    \* the operator starts the tool at the root, or, when working inside the
    \* workspaces, in one of them
    /\ \E d \in dirs : Len(d.rel) < MaxDepth + (IF env.inside THEN 1 ELSE 0) /\ cwd' = d
    /\ pc' = "main"
    \* history: the run that has just ended was a duo run that allocated its
    \* first workspace and failed in the second allocation
    /\ loc' = [LocInit EXCEPT !.half =
                   IF pc = "done" /\ exit_code # 0 /\ loc.agent_idx = 2
                      /\ loc.agent_worktree[2] = NoPath
                   THEN [base |-> loc.base, agents |-> loc.agents,
                         first |-> loc.agent_worktree[1]]
                   ELSE NoHalf]
    /\ exit_code' = -1
    /\ message' = NoMessage
    /\ stdin_reads' = 0
    /\ vcs_log' = <<>>
    /\ at_invoke' = [branches |-> branches, worktrees |-> worktrees, dirs |-> dirs,
                     dirty |-> dirty, windows |-> windows, sessions |-> sessions,
                    prompts |-> prompts]
    /\ alloc_chk' = NoChk
    /\ UNCHANGED <<gitvars, sessions, windows, alloc_prev, duo_prev, edits>>
    /\ UNCHANGED tmpfiles

\* ---- cli.py: main ------------------------------------------------------
main ==
    /\ pc = "main"
    /\ IF cfg.cmd = "merge" THEN pc' = "handle_merge_command" /\ UNCHANGED <<exit_code, message>>
       ELSE IF cfg.cmd = "review" THEN pc' = "handle_review_command" /\ UNCHANGED <<exit_code, message>>
       ELSE IF ~env.tmux_bin THEN Exit(1, Msg("tmux not found"))
       ELSE IF ~env.TMUX THEN Exit(1, Msg("must be run inside an existing tmux session"))
       ELSE IF cfg.prompt = "" THEN pc' = "handle_session_only" /\ UNCHANGED <<exit_code, message>>
       ELSE IF cfg.agent_mode = "dual" THEN pc' = "run_duo" /\ UNCHANGED <<exit_code, message>>
       ELSE IF cfg.agent_mode = "review" THEN pc' = "run_duo_review" /\ UNCHANGED <<exit_code, message>>
       ELSE pc' = "run_single" /\ UNCHANGED <<exit_code, message>>
    /\ UNCHANGED <<gitvars, tmuxvars, histvars, cfg, env, cwd, loc, stdin_reads, vcs_log, runs>>
    /\ UNCHANGED tmpfiles

\* Path.cwd().name
DirName(d) == IF d.rel = <<>> THEN <<d.words[Len(d.words)]>> ELSE d.rel[Len(d.rel)]

get_session_name(d) == <<"vibe-">> \o DirName(d)

\* the tmux commands of handle_session_only for a session `name`
SessionCommands(name) ==
    IF name \in sessions THEN <<"has-session", "switch-client">>
    ELSE <<"has-session", "new-session", "switch-client">>

handle_session_only ==
    /\ pc = "handle_session_only"
    /\ sessions' = sessions \cup {get_session_name(cwd)}
    /\ loc' = [loc EXCEPT !.tmux_log =
                   @ \o [i \in 1..Len(SessionCommands(get_session_name(cwd))) |->
                            [op |-> SessionCommands(get_session_name(cwd))[i],
                             pane |-> 0, keys |-> ""]]]
    /\ Exit(0, NoMessage)
    /\ UNCHANGED <<gitvars, tmux_server, windows, histvars, cfg, env, cwd, stdin_reads, vcs_log, runs>>
    /\ UNCHANGED tmpfiles

\* ---- review_cli.py -----------------------------------------------------
handle_review_command ==
    /\ pc = "handle_review_command"
    /\ cfg' = [cfg EXCEPT !.no_worktree = TRUE,
                          !.agent_mode = IF cfg.review_single THEN "single" ELSE "review",
                          !.prompt = "Review the completed work"]
    /\ pc' = IF cfg.review_single THEN "run_single" ELSE "run_duo_review"
    /\ UNCHANGED <<gitvars, tmuxvars, histvars, env, cwd, loc, exit_code, message,
                   stdin_reads, vcs_log, runs>>
    /\ UNCHANGED tmpfiles

\* ---- run.py: entry of the single and duo workflows ----------------------
\* return status of a command that can fail in a faulty environment
Outcomes == IF env.faults THEN BOOLEAN ELSE {TRUE}

\* ensure_git_repo, then pull_latest_changes
EnsureRepoAndPull(next_wt, next_nowt) ==
    IF ~InRepo(cwd)
    THEN /\ Exit(1, Msg("Not in a git repository"))
         /\ UNCHANGED <<cfg, vcs_log, loc>>
    ELSE /\ \E fb \in FromBranches, pulled \in Outcomes :
              /\ (cfg.cmd = "review" => fb = NoneVal)
              /\ (fb # NoneVal => pulled)
              /\ cfg' = [cfg EXCEPT !.from_branch = fb]
              /\ vcs_log' = IF fb # NoneVal THEN vcs_log ELSE Append(vcs_log, "pull")
              \* a failed pull is a warning, "Continuing anyway..."
              /\ loc' = IF pulled THEN loc ELSE [loc EXCEPT !.failed = @ \cup {"pull"}]
         /\ pc' = IF cfg.no_worktree THEN next_nowt ELSE next_wt
         /\ UNCHANGED <<exit_code, message>>

run_single ==
    /\ pc = "run_single"
    /\ EnsureRepoAndPull("run_with_worktree", "run_no_worktree")
    /\ UNCHANGED <<gitvars, tmuxvars, histvars, env, cwd, stdin_reads, runs>>
    /\ UNCHANGED tmpfiles

run_duo ==
    /\ pc = "run_duo"
    /\ EnsureRepoAndPull("run_duo_with_worktrees", "run_duo_no_worktree")
    /\ UNCHANGED <<gitvars, tmuxvars, histvars, env, cwd, stdin_reads, runs>>
    /\ UNCHANGED tmpfiles

\* the branch namer: generate_branch_name's outcomes for any reply
\* [ok |-> TRUE, name |-> n] or a fatal exit
NamerOutcomes ==
    {[ok |-> FALSE, name |-> Unset]} \cup
    {[ok |-> sanitize_branch_name(r) # <<>>, name |-> sanitize_branch_name(r)] : r \in RawNames}

\* `if cfg.branch_name: validate_branch_name(...) else generate_branch_name(...)`
\* yields the name to use, or "fatal"
ChooseName(explicit, outcome) ==
    IF explicit # NoneVal /\ explicit # <<>>
    THEN IF validate_branch_name(explicit)
         THEN [ok |-> TRUE, name |-> explicit, why |-> ""]
         ELSE [ok |-> FALSE, name |-> explicit, why |-> "Invalid branch name provided"]
    ELSE IF outcome.ok
         THEN [ok |-> TRUE, name |-> outcome.name, why |-> ""]
         ELSE [ok |-> FALSE, name |-> outcome.name,
               why |-> IF outcome.name = Unset THEN "AI branch name generation failed"
                       ELSE "Generated invalid branch name"]

determine_source_ref_no_master(from_branch, from_master, local, current, isatty, choice) ==
    IF from_branch \notin {NoneVal, <<>>} THEN from_branch
    ELSE IF local = {} THEN <<"HEAD">>
    ELSE IF ~isatty THEN Sorted(local)[1] ELSE choice

determine_source_ref_master_first(from_branch, from_master, local, current, isatty, choice) ==
    IF from_master THEN <<"master">>
    ELSE IF from_branch \notin {NoneVal, <<>>} THEN from_branch
    ELSE IF local = {} THEN <<"HEAD">>
    ELSE IF ~isatty THEN Sorted(local)[1] ELSE choice

\* ---- gitops.py: determine_source_ref ------------------------------------
\* isatty and choice are the operator's terminal and menu answer;
\* `if cfg.from_branch` is false for None and for the empty string
determine_source_ref(from_branch, from_master, local, current, isatty, choice) ==
    IF from_branch \notin {NoneVal, <<>>} THEN from_branch
    ELSE IF from_master THEN <<"master">>
    ELSE IF local = {} THEN <<"HEAD">>
    ELSE LET default_branch ==
                 IF <<"master">> \in local THEN <<"master">>
                 ELSE IF current \in local THEN current
                 ELSE Sorted(local)[1]
         IN  IF ~isatty THEN default_branch ELSE choice

\* src/vibe/cli.py: the single-file implementation's resolver
\* in_worktree stands for `"/worktree" in str(Path.cwd())`
legacy_determine_source_ref(from_branch, from_master, in_worktree) ==
    IF from_branch \notin {NoneVal, <<>>} THEN from_branch
    ELSE IF in_worktree
         THEN IF from_master THEN <<"master">> ELSE <<"HEAD">>
         ELSE <<"HEAD">>

\* reads of sys.stdin.isatty(): the answer is fixed for one invocation
TtyAnswers == IF env.tty = "unset" THEN {"yes", "no"} ELSE {env.tty}

\* the step of a workflow that calls determine_source_ref(cfg)
SourceRefStep(next) ==
    \E fm \in BOOLEAN, t \in TtyAnswers, choice \in branches :
        LET asks == cfg.from_branch = NoneVal /\ ~fm /\ branches # {}
            ref  == determine_source_ref(cfg.from_branch, fm, branches, HeadBranch(cwd),
                                         t = "yes", choice)
        IN  /\ cfg' = [cfg EXCEPT !.from_master = fm]
            /\ env' = IF asks THEN [env EXCEPT !.tty = t] ELSE env
            /\ stdin_reads' = IF asks /\ t = "yes" THEN stdin_reads + 1 ELSE stdin_reads
            /\ loc' = [loc EXCEPT !.source_ref = ref]
            /\ pc' = next

\* ---- worktree.py: the allocator ----------------------------------------
Snap == <<branches, worktrees, dirs, basedirs>>

\* the repository's state for a branch name, as git records it: 1 the branch
\* has a worktree whose directory exists, 2 it has a worktree whose directory
\* is gone, 3 the branch exists without a worktree, 4 there is no such branch
AllocCase(name) ==
    IF \E w \in Range(worktrees) : w.branch = name /\ w.path \in dirs THEN 1
    ELSE IF CheckedOut(name) THEN 2
    ELSE IF name \in branches THEN 3
    ELSE 4

\* bookkeeping at the entry of setup_worktree / prepare_agent_worktree
EnterAllocator(fn, name) ==
    [loc EXCEPT !.fn = fn, !.arg_branch = name, !.existing = NoPath,
                !.worktree_path = WorktreePath(cwd, name),
                !.entry_same = (alloc_prev.name = name /\ alloc_prev.snap = Snap),
                !.muts = 0, !.case = AllocCase(name), !.entry_log = Len(vcs_log)]

\* where the caller continues after the allocator returned `path`
Return(l, path) ==
    IF l.fn = "setup_worktree"
    THEN /\ loc' = [l EXCEPT !.agent_worktree[1] = path, !.fn = ""]
         /\ pc' = "run_with_worktree_chdir"
    ELSE IF l.agent_idx = 1
    THEN /\ loc' = [l EXCEPT !.agent_worktree[1] = path, !.agent_idx = 2, !.fn = ""]
         /\ pc' = "prepare_agent_worktree"
    ELSE /\ loc' = [l EXCEPT !.agent_worktree[2] = path, !.fn = ""]
         /\ pc' = "write_duo_prompt"

\* history of allocator calls, written when a call returns `path` for `name`
RecordReturn(l, name, path) ==
    /\ UNCHANGED <<at_invoke, duo_prev, edits>>
    /\ alloc_prev' = [name |-> name, path |-> path,
                      snap |-> <<branches', worktrees', dirs', basedirs'>>,
                      custom |-> (l.custom # Unset)]
    /\ alloc_chk' = IF l.entry_same
                    THEN [valid |-> TRUE, first |-> alloc_prev.path, second |-> path,
                          muts |-> l.muts,
                          custom |-> (alloc_prev.custom \/ l.custom # Unset)]
                    ELSE NoChk

\* ensure_worktree_dir
EnsuredBase == basedirs \cup {cwd}

setup_worktree ==
    /\ pc = "setup_worktree"
    /\ loc' = EnterAllocator("setup_worktree", loc.branch_name)
    /\ basedirs' = EnsuredBase
    /\ pc' = "alloc_find"
    /\ UNCHANGED <<root, branches, worktrees, dirs, dirty, prompts, tmuxvars, histvars,
                   cfg, env, cwd, exit_code, message, stdin_reads, vcs_log, runs>>
    /\ UNCHANGED tmpfiles

prepare_agent_worktree_skipped ==
    /\ pc = "prepare_agent_worktree"
    /\ pc' = "write_duo_prompt"
    /\ UNCHANGED <<gitvars, tmuxvars, histvars, cfg, env, cwd, loc, exit_code, message,
                   stdin_reads, vcs_log, runs, tmpfiles>>

prepare_agent_worktree ==
    /\ pc = "prepare_agent_worktree"
    /\ LET name == loc.agent_branch[loc.agent_idx]
       IN  IF ~validate_branch_name(name)
           THEN /\ Exit(1, Msg("Invalid branch name provided"))
                /\ UNCHANGED <<loc, basedirs>>
           ELSE /\ loc' = EnterAllocator("prepare_agent_worktree", name)
                /\ basedirs' = EnsuredBase
                /\ pc' = "alloc_find"
                /\ UNCHANGED <<exit_code, message>>
    /\ UNCHANGED <<root, branches, worktrees, dirs, dirty, prompts, tmuxvars, histvars,
                   cfg, env, cwd, stdin_reads, vcs_log, runs>>
    /\ UNCHANGED tmpfiles

\* existing = find_existing_worktree(branch_name); if existing: ...
alloc_find ==
    /\ pc = "alloc_find"
    /\ UNCHANGED <<gitvars, tmuxvars, cfg, env, cwd, exit_code, message, stdin_reads,
                   vcs_log, runs>>
    /\ LET existing == find_existing_worktree(loc.arg_branch)
       IN  IF existing # NoPath
           THEN IF existing \in dirs
                THEN /\ Return(loc, existing)
                     /\ RecordReturn(loc, loc.arg_branch, existing)
                ELSE /\ loc' = [loc EXCEPT !.existing = existing]
                     /\ pc' = "alloc_prune"
                     /\ UNCHANGED histvars
           ELSE /\ pc' = IF branch_exists(loc.arg_branch) THEN "alloc_attach"
                         ELSE IF loc.fn = "setup_worktree" THEN "setup_worktree_source_ref"
                         ELSE "alloc_create"
                /\ UNCHANGED <<loc, histvars>>
    /\ UNCHANGED tmpfiles

\* git worktree prune
alloc_prune ==
    /\ pc = "alloc_prune"
    /\ worktrees' = Pruned
    /\ vcs_log' = Append(vcs_log, "worktree prune")
    /\ loc' = [loc EXCEPT !.muts = @ + 1]
    /\ pc' = "alloc_readd"
    /\ UNCHANGED <<root, branches, dirs, basedirs, dirty, prompts, tmuxvars, histvars,
                   cfg, env, cwd, exit_code, message, stdin_reads, runs>>
    /\ UNCHANGED tmpfiles

\* git worktree add <worktree_path> <branch_name>, check=True
WorktreeAddStep ==
    /\ vcs_log' = Append(vcs_log, "worktree add")
    /\ UNCHANGED <<root, branches, basedirs, dirty, prompts, tmuxvars, cfg, env, cwd,
                   stdin_reads, runs>>
    /\ IF CanWorktreeAdd(loc.worktree_path, loc.arg_branch)
       THEN /\ worktrees' = Append(worktrees, [path |-> loc.worktree_path, branch |-> loc.arg_branch])
            /\ dirs' = dirs \cup {loc.worktree_path}
            /\ Return([loc EXCEPT !.muts = @ + 1], loc.worktree_path)
            /\ UNCHANGED <<exit_code, message>>
            /\ RecordReturn([loc EXCEPT !.muts = @ + 1], loc.arg_branch, loc.worktree_path)
       ELSE /\ Crash
            /\ UNCHANGED <<worktrees, dirs, loc, histvars>>

alloc_readd ==
    /\ pc = "alloc_readd"
    /\ WorktreeAddStep
    /\ UNCHANGED tmpfiles

alloc_attach ==
    /\ pc = "alloc_attach"
    /\ WorktreeAddStep
    /\ UNCHANGED tmpfiles

\* git worktree add -b <branch_name> <worktree_path> <source_ref>
alloc_create ==
    /\ pc = "alloc_create"
    /\ vcs_log' = Append(vcs_log, "worktree add -b")
    /\ UNCHANGED <<root, basedirs, dirty, prompts, tmuxvars, cfg, cwd, stdin_reads, runs>>
    /\ IF CanWorktreeAddNew(loc.arg_branch, loc.worktree_path, loc.source_ref, cwd)
       THEN /\ branches' = branches \cup {loc.arg_branch}
            /\ UNCHANGED env
            /\ worktrees' = Append(worktrees, [path |-> loc.worktree_path, branch |-> loc.arg_branch])
            /\ dirs' = dirs \cup {loc.worktree_path}
            \* the new branch starts at the commit source_ref names
            /\ Return([loc EXCEPT !.muts = @ + 1, !.start_point = loc.source_ref],
                      loc.worktree_path)
            /\ UNCHANGED <<exit_code, message>>
            /\ RecordReturn([loc EXCEPT !.muts = @ + 1], loc.arg_branch, loc.worktree_path)
       ELSE /\ branches' = BranchesAfterFailedAdd(loc.arg_branch, loc.worktree_path,
                                                   loc.source_ref, cwd)
            /\ UNCHANGED <<worktrees, dirs, histvars>>
            /\ IF loc.fn = "prepare_agent_worktree"
               THEN \* no handler: the run dies whether or not standard input
                    \* is a terminal, which this call does not look at
                    /\ Crash
                    /\ UNCHANGED loc
                    /\ \E t \in TtyAnswers :
                          /\ env.tty # "unset" => t = env.tty
                          /\ env' = [env EXCEPT !.tty = t]
               ELSE /\ pc' = "setup_worktree_fallback"
                    /\ loc' = [loc EXCEPT !.muts = @ + 1]
                    /\ UNCHANGED <<exit_code, message, env>>
    /\ UNCHANGED tmpfiles

setup_worktree_source_ref ==
    /\ pc = "setup_worktree_source_ref"
    /\ SourceRefStep("alloc_create")
    /\ UNCHANGED <<gitvars, tmuxvars, histvars, cwd, exit_code, message, vcs_log, runs>>
    /\ UNCHANGED tmpfiles

\* except subprocess.CalledProcessError: ask for another name on a terminal
setup_worktree_fallback ==
    /\ pc = "setup_worktree_fallback"
    /\ \E t \in TtyAnswers, custom \in ExplicitNames :
          \* sys.stdin.isatty() answers as it did in determine_source_ref
          /\ env.tty # "unset" => t = env.tty
          /\ env' = [env EXCEPT !.tty = t]
          /\ IF t = "no"
             THEN /\ Exit(1, Msg("Cannot prompt for input in non-interactive mode"))
                  /\ custom = <<>>
                  /\ UNCHANGED <<loc, stdin_reads>>
             ELSE /\ stdin_reads' = stdin_reads + 1
                  /\ IF custom = <<>>
                     THEN Exit(1, Msg("No branch name provided")) /\ UNCHANGED loc
                     ELSE IF ~validate_branch_name(custom)
                     THEN /\ Exit(1, Msg("Invalid branch name provided"))
                          /\ loc' = [loc EXCEPT !.custom = custom]
                     ELSE /\ loc' = [loc EXCEPT !.custom = custom,
                                                !.worktree_path = WorktreePath(cwd, custom)]
                          /\ pc' = "setup_worktree_custom"
                          /\ UNCHANGED <<exit_code, message>>
    /\ UNCHANGED <<gitvars, tmuxvars, histvars, cfg, cwd, vcs_log, runs>>
    /\ UNCHANGED tmpfiles

\* git worktree add -b <custom> <worktree_path> HEAD
setup_worktree_custom ==
    /\ pc = "setup_worktree_custom"
    /\ vcs_log' = Append(vcs_log, "worktree add -b")
    /\ UNCHANGED <<root, basedirs, dirty, prompts, tmuxvars, cfg, env, cwd, stdin_reads, runs>>
    /\ IF CanWorktreeAddNew(loc.custom, loc.worktree_path, <<"HEAD">>, cwd)
       THEN /\ branches' = branches \cup {loc.custom}
            /\ worktrees' = Append(worktrees, [path |-> loc.worktree_path, branch |-> loc.custom])
            /\ dirs' = dirs \cup {loc.worktree_path}
            \* HEAD is the tip of the branch checked out in the current directory
            /\ Return([loc EXCEPT !.muts = @ + 1, !.start_point = HeadBranch(cwd)],
                      loc.worktree_path)
            /\ UNCHANGED <<exit_code, message>>
            /\ RecordReturn([loc EXCEPT !.muts = @ + 1], loc.arg_branch, loc.worktree_path)
       ELSE /\ Crash
            /\ branches' = BranchesAfterFailedAdd(loc.custom, loc.worktree_path, <<"HEAD">>, cwd)
            /\ UNCHANGED <<worktrees, dirs, loc, histvars>>
    /\ UNCHANGED tmpfiles

\* ---- tmux.py ------------------------------------------------------------
\* the tmux commands of the run so far, in the order they were issued: op is
\* the tmux sub-command, pane the pane addressed (0: the window), keys what
\* send-keys types ("C-m" alone, or an agent command followed by C-m)
Issued(l, op, pane, keys) ==
    [l EXCEPT !.tmux_log = Append(@, [op |-> op, pane |-> pane, keys |-> keys])]

NoPane == [dir |-> NoPath, title |-> "", keys |-> <<>>]

KeyEnter == [kind |-> "C-m", bin |-> "", flags |-> "", message |-> <<>>, cat |-> 0, rm |-> 0]

get_agent_flags(agent_cmd) ==
    IF agent_cmd = "codex" THEN "--dangerously-bypass-approvals-and-sandbox"
    ELSE "--dangerously-skip-permissions"

\* tempfile.mkstemp: the name of a file that does not exist yet
mkstemp == Len(tmpfiles) + 1

build_agent_command_context_only(agent_cmd, agent_flags, context, prompt) ==
    [kind |-> "command", bin |-> agent_cmd, flags |-> agent_flags,
     message |-> <<[text |-> "", context |-> context]>>,
     cat |-> mkstemp, rm |-> mkstemp]

build_agent_command_removing_other(agent_cmd, agent_flags, context, prompt) ==
    [kind |-> "command", bin |-> agent_cmd, flags |-> agent_flags,
     message |-> IF prompt = "" THEN <<[text |-> "", context |-> context]>>
                 ELSE <<[text |-> "", context |-> context],
                        [text |-> "\n\n", context |-> NoCtx],
                        [text |-> prompt, context |-> NoCtx]>>,
     cat |-> mkstemp, rm |-> mkstemp + 1]

\* build_agent_command: message is the text written to the new file (the
\* context and, when the prompt is not empty, a blank line and the prompt, as
\* the sequence of these parts); the command line returned is
\*   bin flags "$(cat <cat>)" && rm -f <rm>
build_agent_command(agent_cmd, agent_flags, context, prompt) ==
    [kind |-> "command", bin |-> agent_cmd, flags |-> agent_flags,
     message |-> IF prompt = "" THEN <<[text |-> "", context |-> context]>>
                 ELSE <<[text |-> "", context |-> context],
                        [text |-> "\n\n", context |-> NoCtx],
                        [text |-> prompt, context |-> NoCtx]>>,
     cat |-> mkstemp, rm |-> mkstemp]

\* lines 26-29: the file made by mkstemp, holding the message
WriteTemp(command) == Append(tmpfiles, [content |-> command.message, exists |-> TRUE])

\* tmux new-window -n name -c dir: possible when a server is running
NewWindow(name, dir) ==
    Append(windows, [name |-> name, alive |-> TRUE, window_dir |-> NoPath,
                     panes |-> <<[NoPane EXCEPT !.dir = dir]>>])

\* tmux split-window -t window -c dir
SplitWindow(id, dir) ==
    [windows EXCEPT ![id].panes = Append(@, [NoPane EXCEPT !.dir = dir])]

\* tmux send-keys -t pane keys...
SendKeys(id, pane, keys) ==
    [windows EXCEPT ![id].panes[pane].keys = @ \o keys]

\* tmux select-pane -T title -t pane
SetPaneTitle(id, pane, title) ==
    [windows EXCEPT ![id].panes[pane].title = title]

\* tmux setw -t window @window_dir path
SetWindowDir(id, path) ==
    [windows EXCEPT ![id].window_dir = path]

\* ---- run.py: single-agent workflow --------------------------------------
SingleAgents == {"claude", "codex"}

\* lines 92-99: the branch name, explicit or from the namer
run_with_worktree ==
    /\ pc = "run_with_worktree"
    /\ \E explicit \in {NoneVal} \cup ExplicitNames, outcome \in NamerOutcomes :
          LET r == ChooseName(explicit, outcome)
          IN  /\ cfg' = [cfg EXCEPT !.branch_name = explicit]
              /\ IF r.ok
                 THEN /\ loc' = [loc EXCEPT !.branch_name = r.name]
                      /\ pc' = "setup_worktree"
                      /\ UNCHANGED <<exit_code, message>>
                 ELSE /\ Exit(1, Msg(r.why))
                      /\ loc' = [loc EXCEPT !.branch_name = r.name]
    /\ UNCHANGED <<gitvars, tmuxvars, histvars, env, cwd, stdin_reads, vcs_log, runs>>
    /\ UNCHANGED tmpfiles

\* lines 100-108: resolve the returned path and change into it
run_with_worktree_chdir ==
    /\ pc = "run_with_worktree_chdir"
    /\ LET path == loc.agent_worktree[1]
       IN  IF path \notin dirs
           THEN /\ Exit(1, Msg("Expected worktree directory"))
                /\ UNCHANGED <<cwd, loc>>
           ELSE /\ cwd' = path
                /\ loc' = [loc EXCEPT !.win_name = loc.branch_name,
                              !.ctx[1] = [NoCtx EXCEPT !.form = "worktree",
                                                       !.branch = loc.branch_name,
                                                       !.dir = path]]
                /\ pc' = "single_new_window"
                /\ UNCHANGED <<exit_code, message>>
    /\ UNCHANGED <<gitvars, tmuxvars, histvars, cfg, env, stdin_reads, vcs_log, runs>>
    /\ UNCHANGED tmpfiles

\* run_no_worktree, lines 62-66
run_no_worktree ==
    /\ pc = "run_no_worktree"
    /\ loc' = [loc EXCEPT !.branch_name = HeadBranch(cwd), !.win_name = HeadBranch(cwd),
                          !.agent_worktree[1] = cwd,
                          !.ctx[1] = [NoCtx EXCEPT !.form = "current directory",
                                                   !.branch = HeadBranch(cwd), !.dir = cwd]]
    /\ pc' = "single_new_window"
    /\ UNCHANGED <<gitvars, tmuxvars, histvars, cfg, env, cwd, exit_code, message,
                   stdin_reads, vcs_log, runs>>
    /\ UNCHANGED tmpfiles

\* window_id = new_window(branch_name, cwd)
single_new_window ==
    /\ pc = "single_new_window"
    /\ IF tmux_server
       THEN /\ windows' = NewWindow(loc.win_name, cwd)
            /\ loc' = Issued([loc EXCEPT !.window_id = Len(windows) + 1], "new-window", 0, "")
            /\ pc' = "single_set_window_dir"
            /\ UNCHANGED <<exit_code, message>>
       ELSE /\ Exit(1, Msg("Could not create tmux window"))
            /\ UNCHANGED <<windows, loc>>
    /\ UNCHANGED <<gitvars, tmux_server, sessions, histvars, cfg, env, cwd, stdin_reads,
                   vcs_log, runs>>
    /\ UNCHANGED tmpfiles

single_set_window_dir ==
    /\ pc = "single_set_window_dir"
    /\ \E ok \in Outcomes :
          \* a failed setw is a warning only
          /\ windows' = IF ok THEN SetWindowDir(loc.window_id, cwd) ELSE windows
          /\ loc' = Issued(IF ok THEN loc ELSE [loc EXCEPT !.failed = @ \cup {"setw"}],
                           "setw", 0, "")
    /\ pc' = "single_send_enter"
    /\ UNCHANGED <<gitvars, tmux_server, sessions, histvars, cfg, env, cwd, exit_code,
                   message, stdin_reads, vcs_log, runs>>
    /\ UNCHANGED tmpfiles

single_send_enter ==
    /\ pc = "single_send_enter"
    /\ windows' = SendKeys(loc.window_id, 1, <<KeyEnter>>)
    /\ loc' = Issued(loc, "send-keys", 1, "C-m")
    /\ pc' = "single_send_command"
    /\ UNCHANGED <<gitvars, tmux_server, sessions, histvars, cfg, env, cwd, exit_code,
                   message, stdin_reads, vcs_log, runs>>
    /\ UNCHANGED tmpfiles

single_send_command ==
    /\ pc = "single_send_command"
    /\ \E agent \in SingleAgents :
          LET command == build_agent_command(agent, get_agent_flags(agent), loc.ctx[1],
                                             cfg.prompt)
          IN  /\ (cfg.cmd = "review" => agent \in {"claude", "codex"})
              /\ tmpfiles' = WriteTemp(command)
              /\ windows' = SendKeys(loc.window_id, 1, <<command, KeyEnter>>)
    /\ loc' = Issued(loc, "send-keys", 1, "command")
    /\ Exit(0, NoMessage)
    /\ UNCHANGED <<gitvars, tmux_server, sessions, histvars, cfg, env, cwd,
                   stdin_reads, vcs_log, runs>>

\* ---- run.py: duo workflow -----------------------------------------------
\* lines 198-212: agents, base name, the two branch names
run_duo_with_worktrees ==
    /\ pc = "run_duo_with_worktrees"
    /\ \E pair \in AgentPairs, explicit \in {NoneVal} \cup ExplicitNames,
          outcome \in NamerOutcomes :
          LET r == ChooseName(explicit, outcome)
          IN  /\ cfg' = [cfg EXCEPT !.branch_name = explicit, !.duo_agents = pair]
              /\ IF r.ok
                 THEN /\ loc' = [loc EXCEPT !.base = r.name, !.agents = pair,
                                    !.agent_branch = <<AgentBranch(r.name, pair[1]),
                                                       AgentBranch(r.name, pair[2])>>,
                                    !.agent_idx = 1,
                                    !.duo_same =
                                        IF duo_prev.base = r.name /\ duo_prev.agents = pair
                                           /\ duo_prev.snap = Snap
                                        THEN [valid |-> TRUE, paths |-> duo_prev.paths]
                                        ELSE NoDuoSame]
                      /\ pc' = "run_duo_source_ref"
                      /\ UNCHANGED <<exit_code, message>>
                 ELSE /\ Exit(1, Msg(r.why))
                      /\ loc' = [loc EXCEPT !.base = r.name]
    /\ UNCHANGED <<gitvars, tmuxvars, histvars, env, cwd, stdin_reads, vcs_log, runs>>
    /\ UNCHANGED tmpfiles

\* line 214
run_duo_source_ref ==
    /\ pc = "run_duo_source_ref"
    /\ SourceRefStep("prepare_agent_worktree")
    /\ UNCHANGED <<gitvars, tmuxvars, histvars, cwd, exit_code, message, vcs_log, runs>>
    /\ UNCHANGED tmpfiles

DuoCtx(form, me, other) ==
    [NoCtx EXCEPT !.form = form, !.branch = loc.agent_branch[me],
                  !.dir = loc.agent_worktree[me], !.peer = loc.agents[other],
                  !.peer_branch = loc.agent_branch[other]]

\* line 218: the prompt is stored under the worktrees directory
write_duo_prompt ==
    /\ pc = "write_duo_prompt"
    /\ prompts' = {q \in prompts : ~(q.dir = cwd /\ q.base = loc.base)}
                     \cup {[dir |-> cwd, base |-> loc.base, text |-> cfg.prompt]}
    /\ loc' = [loc EXCEPT !.win_name = loc.base,
                          !.ctx = <<DuoCtx("duo worktree", 1, 2), DuoCtx("duo worktree", 2, 1)>>]
    /\ pc' = "duo_new_window"
    /\ duo_prev' = [base |-> loc.base, agents |-> loc.agents, paths |-> loc.agent_worktree,
                    snap |-> Snap]
    /\ UNCHANGED <<root, branches, worktrees, dirs, basedirs, dirty, tmuxvars, at_invoke,
                   alloc_prev, alloc_chk, edits, cfg, env, cwd, exit_code, message,
                   stdin_reads, vcs_log, runs>>
    /\ UNCHANGED tmpfiles

run_duo_no_worktree_allocating ==
    /\ pc = "run_duo_no_worktree"
    /\ pc' = "run_duo_with_worktrees"
    /\ UNCHANGED <<gitvars, tmuxvars, histvars, cfg, env, cwd, loc, exit_code, message,
                   stdin_reads, vcs_log, runs>>
    /\ UNCHANGED tmpfiles

\* run_duo_no_worktree, lines 155-166
run_duo_no_worktree ==
    /\ pc = "run_duo_no_worktree"
    /\ \E pair \in AgentPairs :
          /\ cfg' = [cfg EXCEPT !.duo_agents = pair]
          /\ loc' = [loc EXCEPT !.agents = pair, !.agent_worktree = <<cwd, cwd>>,
                        !.win_name = HeadBranch(cwd) \o <<"-duo">>,
                        !.ctx = <<[NoCtx EXCEPT !.form = "duo current directory",
                                       !.branch = HeadBranch(cwd), !.dir = cwd, !.peer = pair[2]],
                                  [NoCtx EXCEPT !.form = "duo current directory",
                                       !.branch = HeadBranch(cwd), !.dir = cwd, !.peer = pair[1]]>>]
    /\ pc' = "duo_new_window"
    /\ UNCHANGED <<gitvars, tmuxvars, histvars, env, cwd, exit_code, message, stdin_reads,
                   vcs_log, runs>>
    /\ UNCHANGED tmpfiles

\* window_id = new_window(name, left directory); left_pane = current_pane(window_id)
duo_new_window ==
    /\ pc = "duo_new_window"
    /\ IF tmux_server
       THEN /\ windows' = NewWindow(loc.win_name, loc.agent_worktree[1])
            /\ loc' = Issued([loc EXCEPT !.window_id = Len(windows) + 1, !.left_pane = 1],
                             "new-window", 0, "")
            /\ pc' = "duo_split_window"
            /\ UNCHANGED <<exit_code, message>>
       ELSE /\ Exit(1, Msg("Could not create tmux window"))
            /\ UNCHANGED <<windows, loc>>
    /\ UNCHANGED <<gitvars, tmux_server, sessions, histvars, cfg, env, cwd, stdin_reads,
                   vcs_log, runs>>
    /\ UNCHANGED tmpfiles

\* right_pane = split_window(window_id, cwd=right directory)
duo_split_window ==
    /\ pc = "duo_split_window"
    /\ windows' = SplitWindow(loc.window_id, loc.agent_worktree[2])
    /\ loc' = Issued([loc EXCEPT !.right_pane = 2], "split-window", 0, "")
    /\ pc' = "duo_set_window_dir"
    /\ UNCHANGED <<gitvars, tmux_server, sessions, histvars, cfg, env, cwd, exit_code,
                   message, stdin_reads, vcs_log, runs>>
    /\ UNCHANGED tmpfiles

duo_set_window_dir ==
    /\ pc = "duo_set_window_dir"
    /\ \E ok \in Outcomes :
          /\ windows' = IF ok THEN SetWindowDir(loc.window_id, loc.agent_worktree[1])
                         ELSE windows
          /\ loc' = Issued(IF ok THEN loc ELSE [loc EXCEPT !.failed = @ \cup {"setw"}],
                           "setw", 0, "")
    /\ pc' = "duo_send_enter_1"
    /\ UNCHANGED <<gitvars, tmux_server, sessions, histvars, cfg, env, cwd, exit_code,
                   message, stdin_reads, vcs_log, runs>>
    /\ UNCHANGED tmpfiles

PaneOf(side) == IF side = 1 THEN loc.left_pane ELSE loc.right_pane

\* send_keys(left_pane, "C-m"); send_keys(right_pane, "C-m")
duo_send_enter(side) ==
    /\ pc = IF side = 1 THEN "duo_send_enter_1" ELSE "duo_send_enter_2"
    /\ windows' = SendKeys(loc.window_id, PaneOf(side), <<KeyEnter>>)
    /\ loc' = Issued(loc, "send-keys", PaneOf(side), "C-m")
    /\ pc' = IF side = 1 THEN "duo_send_enter_2" ELSE "duo_set_pane_title_1"
    /\ UNCHANGED <<gitvars, tmux_server, sessions, histvars, cfg, env, cwd, exit_code,
                   message, stdin_reads, vcs_log, runs>>
    /\ UNCHANGED tmpfiles

\* set_pane_title(left_pane, agent1); set_pane_title(right_pane, agent2)
duo_set_pane_title(side) ==
    /\ pc = IF side = 1 THEN "duo_set_pane_title_1" ELSE "duo_set_pane_title_2"
    /\ windows' = SetPaneTitle(loc.window_id, PaneOf(side), loc.agents[side])
    /\ loc' = Issued(loc, "select-pane -T", PaneOf(side), "")
    /\ pc' = IF side = 1 THEN "duo_set_pane_title_2" ELSE "duo_send_command_1"
    /\ UNCHANGED <<gitvars, tmux_server, sessions, histvars, cfg, env, cwd, exit_code,
                   message, stdin_reads, vcs_log, runs>>
    /\ UNCHANGED tmpfiles

duo_send_command_right_first(side) ==
    /\ pc = IF side = 1 THEN "duo_send_command_1" ELSE "duo_send_command_2"
    /\ LET command == build_agent_command(loc.agents[3 - side],
                                          get_agent_flags(loc.agents[3 - side]),
                                          loc.ctx[3 - side], cfg.prompt)
       IN  /\ tmpfiles' = WriteTemp(command)
           /\ windows' = SendKeys(loc.window_id, PaneOf(3 - side), <<command, KeyEnter>>)
    /\ loc' = Issued(loc, "send-keys", PaneOf(3 - side), "command")
    /\ IF side = 1
       THEN pc' = "duo_send_command_2" /\ UNCHANGED <<exit_code, message>>
       ELSE Exit(0, NoMessage)
    /\ UNCHANGED <<gitvars, tmux_server, sessions, histvars, cfg, env, cwd,
                   stdin_reads, vcs_log, runs>>

\* send_keys(left_pane, agent1_cmd, "C-m"); send_keys(right_pane, agent2_cmd, "C-m")
\* a variant that waits for the agents before it returns
duo_send_command_then_wait(side) ==
    /\ pc = IF side = 1 THEN "duo_send_command_1" ELSE "duo_send_command_2"
    /\ LET command == build_agent_command(loc.agents[side], get_agent_flags(loc.agents[side]),
                                          loc.ctx[side], cfg.prompt)
       IN  /\ tmpfiles' = WriteTemp(command)
           /\ windows' = SendKeys(loc.window_id, PaneOf(side), <<command, KeyEnter>>)
    /\ loc' = Issued(loc, "send-keys", PaneOf(side), "command")
    /\ pc' = IF side = 1 THEN "duo_send_command_2" ELSE "wait_agents"
    /\ UNCHANGED <<gitvars, tmux_server, sessions, histvars, cfg, env, cwd, exit_code, message,
                   stdin_reads, vcs_log, runs>>

duo_send_command(side) ==
    /\ pc = IF side = 1 THEN "duo_send_command_1" ELSE "duo_send_command_2"
    /\ LET command == build_agent_command(loc.agents[side], get_agent_flags(loc.agents[side]),
                                          loc.ctx[side], cfg.prompt)
       IN  /\ tmpfiles' = WriteTemp(command)
           /\ windows' = SendKeys(loc.window_id, PaneOf(side), <<command, KeyEnter>>)
    /\ loc' = Issued(loc, "send-keys", PaneOf(side), "command")
    /\ IF side = 1
       THEN pc' = "duo_send_command_2" /\ UNCHANGED <<exit_code, message>>
       ELSE Exit(0, NoMessage)
    /\ UNCHANGED <<gitvars, tmux_server, sessions, histvars, cfg, env, cwd,
                   stdin_reads, vcs_log, runs>>

\* ---- worktree.py: the duo-pair listing and the review resolver -----------
RECURSIVE ListLoop(_, _, _)
ListLoop(lines, current_path, acc) ==
    IF lines = <<>> THEN acc
    ELSE LET line == Head(lines)
         IN  IF line.key = "worktree"
             THEN ListLoop(Tail(lines), SplitRestOfLine(line.path), acc)
             ELSE IF line.key = "branch" /\ current_path # NoPath
                  THEN LET branch == StripRefsHeads(line.ref)
                       IN  ListLoop(Tail(lines), current_path,
                                    {e \in acc : e.branch # branch}
                                        \cup {[branch |-> branch, path |-> current_path]})
                  ELSE ListLoop(Tail(lines), current_path, acc)

\* a variant that cuts every path at its first blank, as line.split()[1] does
list_worktree_branches_split ==
    {[branch |-> e.branch, path |-> SplitSecondField(e.path)] :
        e \in ListLoop(PorcelainLines(worktrees), NoPath, {})}

\* the dict branch -> path, as a set of [branch, path]
list_worktree_branches == ListLoop(PorcelainLines(worktrees), NoPath, {})

\* branch.endswith("-" + agent) and branch[: -len("-" + agent)]
EndsWith(branch, agent) ==
    Len(branch) >= 2 /\ branch[Len(branch) - 1] = "-" /\ branch[Len(branch)] = agent
BaseOf(branch) == SubSeq(branch, 1, Len(branch) - 2)

list_duo_targets ==
    LET listed == list_worktree_branches
        claude_map == {e \in listed : EndsWith(e.branch, "claude")}
        codex_map == {e \in listed : EndsWith(e.branch, "codex")}
    IN  {[base |-> BaseOf(c.branch), claude_branch |-> c.branch, claude_path |-> c.path,
          codex_branch |-> x.branch, codex_path |-> x.path] :
            <<c, x>> \in {q \in claude_map \X codex_map :
                             BaseOf(q[1].branch) = BaseOf(q[2].branch)}}

\* targets.keys()
BasesOf(targets) == {t.base : t \in targets}
TargetFor(targets, base) == CHOOSE t \in targets : t.base = base

\* len(targets) == 1
SinglePair(targets) == Cardinality(targets) = 1

ReviewBases == {NoneVal, <<"b">>, <<"nosuch">>}

\* run_duo_review, lines 264-272
run_duo_review_allocating ==
    /\ pc = "run_duo_review"
    /\ pc' = "run_duo_with_worktrees"
    /\ UNCHANGED <<gitvars, tmuxvars, histvars, cfg, env, cwd, loc, exit_code, message,
                   stdin_reads, vcs_log, runs, tmpfiles>>

run_duo_review ==
    /\ pc = "run_duo_review"
    /\ IF ~InRepo(cwd)
       THEN Exit(1, Msg("Not in a git repository"))
       ELSE pc' = "resolve_review_target" /\ UNCHANGED <<exit_code, message>>
    /\ UNCHANGED <<gitvars, tmuxvars, histvars, cfg, env, cwd, loc, stdin_reads, vcs_log, runs>>
    /\ UNCHANGED tmpfiles

\* where run_duo_review continues with the resolved pair
Resolved(t) ==
    /\ loc' = [loc EXCEPT !.base = t.base, !.agents = <<"claude", "codex">>,
                          !.agent_branch = <<t.claude_branch, t.codex_branch>>,
                          !.agent_worktree = <<t.claude_path, t.codex_path>>]
    /\ pc' = "read_duo_prompt"
    /\ UNCHANGED <<exit_code, message>>

resolve_review_target ==
    /\ pc = "resolve_review_target"
    /\ \E base_hint \in ReviewBases, t \in TtyAnswers :
          LET targets == list_duo_targets
              options == Sorted(BasesOf(targets))
          IN  /\ cfg' = [cfg EXCEPT !.review_base = base_hint]
              /\ env' = [env EXCEPT !.tty = t]
              /\ IF base_hint # NoneVal
                 THEN /\ IF base_hint \in BasesOf(targets)
                         THEN Resolved(TargetFor(targets, base_hint))
                         ELSE Exit(1, Msg("No duo worktree pair found for base")) /\ UNCHANGED loc
                      /\ UNCHANGED stdin_reads
                 ELSE IF targets = {}
                 THEN /\ Exit(1, Msg("No existing duo worktrees found"))
                      /\ UNCHANGED <<loc, stdin_reads>>
                 ELSE IF SinglePair(targets)
                 THEN /\ Resolved(CHOOSE x \in targets : TRUE)
                      /\ UNCHANGED stdin_reads
                 ELSE IF t = "yes"
                 THEN /\ stdin_reads' = stdin_reads + 1
                      /\ \E index \in 0..Len(options) :
                            IF index >= 1
                            THEN Resolved(TargetFor(targets, options[index]))
                            ELSE Exit(1, Msg("Invalid selection for review base"))
                                 /\ UNCHANGED loc
                 ELSE /\ Exit(1, [kind |-> "Multiple duo worktrees found", names |-> options])
                      /\ UNCHANGED <<loc, stdin_reads>>
    /\ UNCHANGED <<gitvars, tmuxvars, histvars, cwd, vcs_log, runs>>
    /\ UNCHANGED tmpfiles

\* the prompt stored for the base under the worktrees directory, or ""
StoredPrompt(dir, base) ==
    IF \E q \in prompts : q.dir = dir /\ q.base = base
    THEN (CHOOSE q \in prompts : q.dir = dir /\ q.base = base).text
    ELSE ""

\* run_duo_review, lines 276-319
read_duo_prompt ==
    /\ pc = "read_duo_prompt"
    /\ LET original == StoredPrompt(cwd, loc.base)
           ctx(me, other) == [DuoCtx("review", me, other) EXCEPT
                                  !.peer_dir = loc.agent_worktree[other],
                                  !.original = original]
       IN  loc' = [loc EXCEPT !.original = original, !.win_name = loc.base \o <<"-review">>,
                              !.ctx = <<ctx(1, 2), ctx(2, 1)>>]
    /\ pc' = "duo_new_window"
    /\ UNCHANGED <<gitvars, tmuxvars, histvars, cfg, env, cwd, exit_code, message,
                   stdin_reads, vcs_log, runs>>
    /\ UNCHANGED tmpfiles

\* ---- merge_cli.py -------------------------------------------------------
git_repo_root_of_main_worktree(path) == IF path \in dirs THEN <<worktrees[1].path>> ELSE <<>>

\* _git_repo_root(path): `git -C path rev-parse --show-toplevel` answers with
\* the working tree that contains path, and fails when path is not on disk
\* git_repo_root(path) is <<root>> or <<>> (None)
git_repo_root(path) == IF path \in dirs THEN <<path>> ELSE <<>>

\* _collect_duo_targets: the pairs whose repository root can be determined
collect_duo_targets ==
    LET raw == list_duo_targets
        RootOf(t) == git_repo_root(t.claude_path) \o git_repo_root(t.codex_path)
    IN  {[base |-> t.base, repo_root |-> RootOf(t)[1], claude_branch |-> t.claude_branch,
          claude_path |-> t.claude_path, codex_branch |-> t.codex_branch,
          codex_path |-> t.codex_path] : t \in {x \in raw : RootOf(x) # <<>>}}

worktree_dirty_never(path) == FALSE

\* _worktree_dirty(path): a failing `git status` counts as clean
worktree_dirty(path) == path \in dirs /\ path \in dirty

MergeBases == {NoneVal, <<"b">>, <<"nosuch">>}
KeepAnswers == {"claude", "codex", "invalid"}

\* lines 65-72: collect the pairs, choose the target and the branch to keep
handle_merge_command ==
    /\ pc = "handle_merge_command"
    /\ LET targets == collect_duo_targets
           options == Sorted(BasesOf(targets))
           Chosen(t, k, reads) ==
               /\ stdin_reads' = stdin_reads + reads
               /\ IF k = "invalid"
                  THEN Exit(1, Msg("Invalid selection for branch to merge")) /\ UNCHANGED loc
                  ELSE /\ loc' = [loc EXCEPT !.base = t.base, !.repo_root = t.repo_root,
                                     !.agents = <<"claude", "codex">>,
                                     !.agent_branch = <<t.claude_branch, t.codex_branch>>,
                                     !.agent_worktree = <<t.claude_path, t.codex_path>>,
                                     !.keeping = IF k = "claude" THEN 1 ELSE 2]
                       /\ pc' = "merge_guard"
                       /\ UNCHANGED <<exit_code, message>>
       IN  IF targets = {}
           THEN /\ Exit(1, Msg("No duo worktrees found"))
                /\ UNCHANGED <<cfg, loc, stdin_reads>>
           ELSE \E base_hint \in MergeBases, keep \in {"unset", "claude", "codex"},
                   answer \in KeepAnswers, index \in 0..Len(options) :
                  LET k == IF keep = "unset" THEN answer ELSE keep
                      kr == IF keep = "unset" THEN 1 ELSE 0
                  IN  /\ cfg' = [cfg EXCEPT !.review_base = base_hint, !.keep = keep]
                      /\ (keep # "unset" => answer = "invalid")
                      /\ IF base_hint # NoneVal
                         THEN /\ index = 0
                              /\ IF base_hint \in BasesOf(targets)
                                 THEN Chosen(TargetFor(targets, base_hint), k, kr)
                                 ELSE /\ Exit(1, Msg("No duo worktree pair found for base"))
                                      /\ UNCHANGED <<loc, stdin_reads>>
                         ELSE IF Len(options) = 1
                         THEN /\ index = 0
                              /\ Chosen(TargetFor(targets, options[1]), k, kr)
                         ELSE IF index = 0
                         THEN /\ answer = "invalid" /\ keep = "unset"
                              /\ Exit(1, Msg("Invalid selection for merge target"))
                              /\ stdin_reads' = stdin_reads + 1
                              /\ UNCHANGED loc
                         ELSE Chosen(TargetFor(targets, options[index]), k, kr + 1)
    /\ UNCHANGED <<gitvars, tmuxvars, histvars, env, cwd, vcs_log, runs>>
    /\ UNCHANGED tmpfiles

\* lines 75-100: the guards, the target branch and its checkout
merge_guard ==
    /\ pc = "merge_guard"
    /\ LET keeping_branch == loc.agent_branch[loc.keeping]
           keeping_path == loc.agent_worktree[loc.keeping]
           repo_root == loc.repo_root
       IN  \E into \in {NoneVal} \cup branches :
             LET target_branch == IF into # NoneVal THEN into ELSE HeadBranch(repo_root)
             IN  /\ cfg' = [cfg EXCEPT !.target_branch = into]
                 /\ IF keeping_path \notin dirs
                    THEN /\ into = NoneVal
                         /\ Exit(1, Msg("Worktree no longer exists"))
                         /\ UNCHANGED <<worktrees, vcs_log>>
                    ELSE IF worktree_dirty(keeping_path) /\ ~cfg.force
                    THEN /\ into = NoneVal
                         /\ Exit(1, Msg("Unstaged changes detected"))
                         /\ UNCHANGED <<worktrees, vcs_log>>
                    ELSE IF worktree_dirty(repo_root) /\ ~cfg.force
                    THEN /\ Exit(1, Msg("Target branch has unstaged changes"))
                         /\ vcs_log' = Append(vcs_log, "fetch")
                         /\ UNCHANGED worktrees
                    ELSE IF HeadBranch(repo_root) = target_branch
                    THEN /\ pc' = "merge_run"
                         /\ vcs_log' = Append(vcs_log, "fetch")
                         /\ UNCHANGED <<worktrees, exit_code, message>>
                    ELSE IF target_branch \in branches /\ ~CheckedOut(target_branch)
                    THEN /\ worktrees' = [i \in 1..Len(worktrees) |->
                                             IF worktrees[i].path = repo_root
                                             THEN [worktrees[i] EXCEPT !.branch = target_branch]
                                             ELSE worktrees[i]]
                         /\ vcs_log' = vcs_log \o <<"fetch", "checkout">>
                         /\ pc' = "merge_run"
                         /\ UNCHANGED <<exit_code, message>>
                    ELSE /\ Exit(1, Msg("Command failed"))
                         /\ vcs_log' = vcs_log \o <<"fetch", "checkout">>
                         /\ UNCHANGED worktrees
    /\ UNCHANGED <<root, branches, dirs, basedirs, dirty, prompts, tmuxvars, histvars, env,
                   cwd, loc, stdin_reads, runs>>
    /\ UNCHANGED tmpfiles

\* the working tree of repo_root after `git merge` returned `result`: a
\* merge that stopped on a conflict leaves unmerged files behind
DirtyAfterMerge(repo_root, result) ==
    IF result # 0 THEN dirty \cup {repo_root} ELSE dirty

merge_run_then_cleanup ==
    /\ pc = "merge_run"
    /\ \E result \in {0, 1} :
          /\ (loc.agent_branch[loc.keeping] = HeadBranch(loc.repo_root) => result = 0)
          /\ dirty' = DirtyAfterMerge(loc.repo_root, result)
          /\ message' = IF result # 0 THEN Msg("Merge command exited with status") ELSE message
    /\ pc' = "offer_cleanup"
    /\ vcs_log' = Append(vcs_log, "merge")
    /\ UNCHANGED <<root, branches, worktrees, dirs, basedirs, prompts, tmuxvars, histvars,
                   cfg, env, cwd, loc, exit_code, stdin_reads, runs>>
    /\ UNCHANGED tmpfiles

\* lines 102-121: the merge; a branch merged into itself is up to date
merge_run ==
    /\ pc = "merge_run"
    /\ \E result \in {0, 1} :
          /\ (loc.agent_branch[loc.keeping] = HeadBranch(loc.repo_root) => result = 0)
          /\ dirty' = DirtyAfterMerge(loc.repo_root, result)
          /\ IF result # 0
             THEN Exit(0, Msg("Merge command exited with status"))
             ELSE pc' = "offer_cleanup" /\ UNCHANGED <<exit_code, message>>
    /\ vcs_log' = Append(vcs_log, "merge")
    /\ UNCHANGED <<root, branches, worktrees, dirs, basedirs, prompts, tmuxvars, histvars,
                   cfg, env, cwd, loc, stdin_reads, runs>>
    /\ UNCHANGED tmpfiles

\* _offer_cleanup, lines 260-264
offer_cleanup ==
    /\ pc = "offer_cleanup"
    /\ stdin_reads' = stdin_reads + 1
    /\ \E response \in {"y", "n"} :
          IF response = "y"
          THEN /\ loc' = [loc EXCEPT !.task = 1]
               /\ pc' = "cleanup_task"
               /\ UNCHANGED <<exit_code, message>>
          ELSE Exit(0, NoMessage) /\ UNCHANGED loc
    /\ UNCHANGED <<gitvars, tmuxvars, histvars, cfg, env, cwd, vcs_log, runs>>
    /\ UNCHANGED tmpfiles

\* is directory d the directory `path` or one below it
Under(path, d) ==
    /\ d.words = path.words
    /\ Len(d.rel) >= Len(path.rel)
    /\ SubSeq(d.rel, 1, Len(path.rel)) = path.rel

\* `git -C repo_root ...` can run only while repo_root is a working tree on disk
GitRunsIn(repo_root) == repo_root \in dirs /\ Registered(repo_root)

\* git -C repo_root worktree remove path --force
CanWorktreeRemove(repo_root, path) ==
    /\ GitRunsIn(repo_root)
    /\ Registered(path)
    /\ path # worktrees[1].path

\* git -C repo_root branch -D branch
CanBranchDelete(repo_root, branch) ==
    /\ GitRunsIn(repo_root)
    /\ branch \in branches
    /\ ~CheckedOut(branch)

\* _remove_worktree(repo_root, path)
remove_worktree(repo_root, path) ==
    IF path \in dirs /\ CanWorktreeRemove(repo_root, path)
    THEN /\ worktrees' = SelectSeq2(worktrees, {w \in Range(worktrees) : w.path # path})
         /\ dirs' = {d \in dirs : ~Under(path, d)}
         /\ basedirs' = {d \in basedirs : ~Under(path, d)}
         /\ dirty' = {d \in dirty : ~Under(path, d)}
         /\ prompts' = {q \in prompts : ~Under(path, q.dir)}
         /\ UNCHANGED branches
    ELSE UNCHANGED <<branches, worktrees, dirs, basedirs, dirty, prompts>>

\* _delete_branch(repo_root, branch)
delete_branch(repo_root, branch) ==
    /\ branches' = IF CanBranchDelete(repo_root, branch) THEN branches \ {branch}
                   ELSE branches
    /\ UNCHANGED <<worktrees, dirs, basedirs, dirty, prompts>>

\* _delete_file(WORKTREE_BASE / f"{base}.prompt")
delete_file(base) ==
    /\ prompts' = {q \in prompts : ~(q.dir = cwd /\ q.base = base)}
    /\ UNCHANGED <<branches, worktrees, dirs, basedirs, dirty>>

CleanupCommand(task) ==
    IF task <= 2 THEN "worktree remove" ELSE IF task <= 4 THEN "branch -D" ELSE "unlink"

\* _offer_cleanup, lines 266-280: the five cleanup tasks, one after another
cleanup_task ==
    /\ pc = "cleanup_task"
    /\ CASE loc.task = 1 -> remove_worktree(loc.repo_root, loc.agent_worktree[1])
         [] loc.task = 2 -> remove_worktree(loc.repo_root, loc.agent_worktree[2])
         [] loc.task = 3 -> delete_branch(loc.repo_root, loc.agent_branch[1])
         [] loc.task = 4 -> delete_branch(loc.repo_root, loc.agent_branch[2])
         [] OTHER -> delete_file(loc.base)
    /\ vcs_log' = Append(vcs_log, CleanupCommand(loc.task))
    /\ IF loc.task < 5
       THEN loc' = [loc EXCEPT !.task = @ + 1] /\ pc' = "cleanup_task"
       ELSE loc' = [loc EXCEPT !.task = 0] /\ pc' = "cleanup_windows"
    /\ UNCHANGED <<root, tmuxvars, histvars, cfg, env, cwd, exit_code, message,
                   stdin_reads, runs>>
    /\ UNCHANGED tmpfiles

\* s.lower(), and `needle in haystack` on names
LowerName(name) == [i \in 1..Len(name) |-> Lower(name[i])]

\* the characters of a token of a name
Chars(tok) ==
    CASE tok = "main" -> <<"m", "a", "i", "n">>
      [] tok = "master" -> <<"m", "a", "s", "t", "e", "r">>
      [] tok = "claude" -> <<"c", "l", "a", "u", "d", "e">>
      [] tok = "codex" -> <<"c", "o", "d", "e", "x">>
      [] tok = "amp" -> <<"a", "m", "p">>
      [] tok = "nosuch" -> <<"n", "o", "s", "u", "c", "h">>
      [] tok = "-duo" -> <<"-", "d", "u", "o">>
      [] tok = "-review" -> <<"-", "r", "e", "v", "i", "e", "w">>
      [] OTHER -> <<tok>>

RECURSIVE Spell(_)
Spell(name) == IF name = <<>> THEN <<>> ELSE Chars(Head(name)) \o Spell(Tail(name))

\* `needle in haystack` on strings: a run of characters anywhere in the name
NameContains(haystack, needle) ==
    LET h == Spell(haystack)
        n == Spell(needle)
    IN  \E i \in 1..(Len(h) + 1) :
            /\ i + Len(n) - 1 <= Len(h)
            /\ SubSeq(h, i, i + Len(n) - 1) = n

\* _find_related_windows: list_windows needs a running server
find_related_windows ==
    IF ~(env.tmux_bin /\ tmux_server) THEN {}
    ELSE {i \in 1..Len(windows) :
            /\ windows[i].alive
            /\ \/ NameContains(LowerName(windows[i].name), LowerName(loc.base))
               \/ NameContains(LowerName(windows[i].name), LowerName(loc.agent_branch[1]))
               \/ NameContains(LowerName(windows[i].name), LowerName(loc.agent_branch[2]))}

\* _offer_cleanup, lines 282-286
cleanup_windows ==
    /\ pc = "cleanup_windows"
    /\ windows' = [i \in 1..Len(windows) |->
                      IF i \in find_related_windows
                      THEN [windows[i] EXCEPT !.alive = FALSE] ELSE windows[i]]
    /\ Exit(0, Msg("Cleanup complete"))
    /\ UNCHANGED <<gitvars, tmux_server, sessions, histvars, cfg, env, cwd, loc,
                   stdin_reads, vcs_log, runs>>
    /\ UNCHANGED tmpfiles

\* ---- the environment between invocations --------------------------------
\* the operator deletes a workspace directory by hand
operator_removes_dir ==
    /\ pc \in {"idle", "done"}
    /\ runs < MaxRuns
    /\ edits < MaxEdits
    /\ edits' = edits + 1
    /\ \E d \in dirs :
          /\ d.rel # <<>>
          /\ dirs' = {x \in dirs : ~Under(d, x)}
          /\ basedirs' = {x \in basedirs : ~Under(d, x)}
          /\ dirty' = {x \in dirty : ~Under(d, x)}
          /\ prompts' = {q \in prompts : ~Under(d, q.dir)}
    /\ pc' = "idle"
    /\ UNCHANGED <<root, branches, worktrees, tmuxvars, cfg, env, cwd, loc, exit_code, message,
                   stdin_reads, vcs_log, runs, at_invoke, alloc_prev, alloc_chk, duo_prev>>
    /\ UNCHANGED tmpfiles

\* an agent leaves uncommitted changes in its workspace
agent_edits ==
    /\ pc \in {"idle", "done"}
    /\ runs < MaxRuns
    /\ edits < MaxEdits
    /\ edits' = edits + 1
    /\ \E d \in dirs :
          /\ d.rel # <<>>
          /\ Registered(d)
          /\ d \notin dirty
          /\ dirty' = dirty \cup {d}
    /\ pc' = "idle"
    /\ UNCHANGED <<root, branches, worktrees, dirs, basedirs, prompts, tmuxvars, cfg, env, cwd,
                   loc, exit_code, message, stdin_reads, vcs_log, runs, at_invoke, alloc_prev,
                   alloc_chk, duo_prev>>
    /\ UNCHANGED tmpfiles

Next ==
    \/ Invoke
    \/ main
    \/ handle_session_only
    \/ handle_review_command
    \/ run_single
    \/ run_with_worktree
    \/ run_with_worktree_chdir
    \/ run_no_worktree
    \/ single_new_window
    \/ single_set_window_dir
    \/ single_send_enter
    \/ single_send_command
    \/ run_duo
    \/ run_duo_with_worktrees
    \/ run_duo_source_ref
    \/ run_duo_no_worktree
    \/ write_duo_prompt
    \/ duo_new_window
    \/ duo_split_window
    \/ duo_set_window_dir
    \/ duo_send_enter(1)
    \/ duo_send_enter(2)
    \/ duo_set_pane_title(1)
    \/ duo_set_pane_title(2)
    \/ duo_send_command(1)
    \/ duo_send_command(2)
    \/ setup_worktree
    \/ prepare_agent_worktree
    \/ alloc_find
    \/ alloc_prune
    \/ alloc_readd
    \/ alloc_attach
    \/ alloc_create
    \/ setup_worktree_source_ref
    \/ setup_worktree_fallback
    \/ setup_worktree_custom
    \/ run_duo_review
    \/ resolve_review_target
    \/ read_duo_prompt
    \/ handle_merge_command
    \/ merge_guard
    \/ merge_run
    \/ offer_cleanup
    \/ cleanup_task
    \/ cleanup_windows
    \/ operator_removes_dir
    \/ agent_edits

Spec == Init /\ [][Next]_vars

SpecPair == InitPair /\ [][Next]_vars

SpecNested == InitNested /\ [][Next]_vars

SpecFaulty == InitFaulty /\ [][Next]_vars
SpecHalf == InitHalf /\ [][Next]_vars

\* ---- the source-ref resolvers as functions of their inputs --------------
\* the inputs are held in cfg (from_branch, from_master), branches (the local
\* branches), loc.branch_name (the current branch, Unset when detached), cwd
\* (inside a workspace under worktrees/ or the repository root) and env.tty
ResolverBranches == {<<"main">>, <<"master">>, <<"a">>}
ResolverOverrides == {NoneVal, <<>>, <<"a">>, <<"nosuch">>}

InitResolver ==
    /\ root = <<"/repo">>
    /\ branches \in SUBSET ResolverBranches
    /\ worktrees = <<>>
    /\ cwd \in {MkPath(root, <<>>), MkPath(root, <<<<"a">>>>)}
    /\ dirs = {MkPath(root, <<>>), cwd}
    /\ basedirs = {}
    /\ dirty = {}
    /\ prompts = {}
    /\ tmux_server = FALSE
    /\ sessions = {}
    /\ windows = <<>>
    /\ pc = "resolver"
    /\ \E fb \in ResolverOverrides, fm \in BOOLEAN :
          cfg = [CfgDefault EXCEPT !.from_branch = fb, !.from_master = fm]
    /\ \E t \in {"yes", "no"} : env = [EnvDefault EXCEPT !.tty = t]
    /\ \E current \in ResolverBranches \cup {Unset} :
          loc = [LocInit EXCEPT !.branch_name = current]
    /\ exit_code = -1
    /\ message = NoMessage
    /\ stdin_reads = 0
    /\ vcs_log = <<>>
    /\ runs = 1
    /\ at_invoke = [branches |-> branches, worktrees |-> worktrees, dirs |-> dirs,
                    dirty |-> dirty, windows |-> windows, sessions |-> sessions,
                    prompts |-> prompts]
    /\ alloc_prev = NoAlloc
    /\ alloc_chk = NoChk
    /\ duo_prev = NoDuo
    /\ edits = 0
    /\ tmpfiles = <<>>

\* `"/worktree" in str(Path.cwd())`
InWorktree == cwd.rel # <<>>

\* gitops.determine_source_ref(cfg)
resolve_modular ==
    /\ pc = "resolver"
    /\ \E choice \in IF branches = {} THEN {Unset} ELSE branches :
          /\ loc' = [loc EXCEPT !.fn = "gitops.determine_source_ref",
                        !.source_ref = determine_source_ref(cfg.from_branch, cfg.from_master,
                                          branches, loc.branch_name, env.tty = "yes", choice)]
          /\ stdin_reads' = IF cfg.from_branch \in {NoneVal, <<>>} /\ ~cfg.from_master
                               /\ branches # {} /\ env.tty = "yes"
                            THEN 1 ELSE 0
    /\ pc' = "resolved"
    /\ UNCHANGED <<gitvars, tmuxvars, histvars, cfg, env, cwd, exit_code, message, vcs_log,
                   runs>>
    /\ UNCHANGED tmpfiles

\* src/vibe/cli.py determine_source_ref(args)
resolve_legacy ==
    /\ pc = "resolver"
    /\ loc' = [loc EXCEPT !.fn = "cli.determine_source_ref",
                  !.source_ref = legacy_determine_source_ref(cfg.from_branch, cfg.from_master,
                                                             InWorktree)]
    /\ pc' = "resolved"
    /\ UNCHANGED <<gitvars, tmuxvars, histvars, cfg, env, cwd, exit_code, message,
                   stdin_reads, vcs_log, runs>>
    /\ UNCHANGED tmpfiles

NextResolver ==
    \/ resolve_modular
    \/ resolve_legacy

SpecResolver == InitResolver /\ [][NextResolver]_vars

\* ---- cli.py main: agent selection and dispatch ---------------------------
\* the command line is a sequence of tokens; words that are not options are
\* the prompt text
MaxArgs == 2
AgentFlags == {"--codex", "--amp", "--oc", "--duo", "--duo-review"}
ParserFlags == {"--codex", "--amp", "--oc", "--duo", "-i"}
ArgTokens == AgentFlags \cup {"-i", "fix"}

\* agent_selector.get_available_agents
AvailableAgents == {"claude", "codex", "amp", "oc"}
StdinTexts == {<<>>, <<"from stdin">>}

\* argparse over args.py's parser: options are read up to the first word that
\* is not an option; that word and everything after it is the REMAINDER text
RECURSIVE ScanArgs(_, _, _)
ScanArgs(argv, i, flags) ==
    IF i > Len(argv) THEN [error |-> FALSE, flags |-> flags, text |-> <<>>]
    ELSE IF argv[i] \in ParserFlags THEN ScanArgs(argv, i + 1, flags \cup {argv[i]})
    ELSE IF argv[i] \in AgentFlags THEN [error |-> TRUE, flags |-> flags, text |-> <<>>]
    ELSE [error |-> FALSE, flags |-> flags, text |-> SubSeq(argv, i, Len(argv))]

\* args.parse_args(argv): [error, agent_cmd, agent_mode, prompt]
parse_args(argv, stdin) ==
    LET a == ScanArgs(argv, 1, {})
        agent_cmd == IF "--codex" \in a.flags THEN "codex"
                     ELSE IF "--amp" \in a.flags THEN "amp"
                     ELSE IF "--oc" \in a.flags THEN "oc"
                     ELSE "claude"
        agent_mode == IF "--duo" \in a.flags THEN "dual" ELSE "single"
    IN  [error |-> a.error,
         agent_cmd |-> IF agent_mode = "dual" THEN "claude" ELSE agent_cmd,
         agent_mode |-> agent_mode,
         prompt |-> IF "-i" \in a.flags THEN stdin ELSE a.text]

InitSelect ==
    /\ root = <<"/repo">>
    /\ branches = {<<"main">>}
    /\ worktrees = <<[path |-> MkPath(root, <<>>), branch |-> <<"main">>]>>
    /\ cwd = MkPath(root, <<>>)
    /\ dirs = {cwd}
    /\ basedirs = {}
    /\ dirty = {}
    /\ prompts = {}
    /\ tmux_server \in BOOLEAN
    /\ sessions = {}
    /\ windows = <<>>
    /\ pc = "main_select"
    /\ \E argv \in SeqsUpTo(ArgTokens, MaxArgs) : cfg = [CfgDefault EXCEPT !.argv = argv]
    /\ \E tb \in BOOLEAN : env = [EnvDefault EXCEPT !.TMUX = tmux_server, !.tmux_bin = tb]
    /\ loc = LocInit
    /\ exit_code = -1
    /\ message = NoMessage
    /\ stdin_reads = 0
    /\ vcs_log = <<>>
    /\ runs = 1
    /\ at_invoke = [branches |-> branches, worktrees |-> worktrees, dirs |-> dirs,
                    dirty |-> dirty, windows |-> windows, sessions |-> sessions,
                    prompts |-> prompts]
    /\ alloc_prev = NoAlloc
    /\ alloc_chk = NoChk
    /\ duo_prev = NoDuo
    /\ edits = 0
    /\ tmpfiles = <<>>

\* cli.main lines 70-83: the tmux checks, then has_agent_flags
main_select ==
    /\ pc = "main_select"
    /\ IF ~env.tmux_bin THEN Exit(1, Msg("tmux not found"))
       ELSE IF ~env.TMUX THEN Exit(1, Msg("must be run inside an existing tmux session"))
       ELSE /\ pc' = IF \E i \in 1..Len(cfg.argv) : cfg.argv[i] \in AgentFlags
                     THEN "parse_args" ELSE "prompt_agent_selection"
            /\ UNCHANGED <<exit_code, message>>
    /\ UNCHANGED <<gitvars, tmuxvars, histvars, cfg, env, cwd, loc, stdin_reads, vcs_log, runs>>
    /\ UNCHANGED tmpfiles

\* the flag main appends for a selection, lines 90-103
SelectionFlag(sel) ==
    IF sel.mode = "duo" THEN <<"--duo">>
    ELSE IF sel.mode = "review" THEN <<"--duo-review">>
    ELSE IF sel.info # <<>> /\ sel.info[1] = "codex" THEN <<"--codex">>
    ELSE IF sel.info # <<>> /\ sel.info[1] = "amp" THEN <<"--amp">>
    ELSE IF sel.info # <<>> /\ sel.info[1] = "oc" THEN <<"--oc">>
    ELSE <<>>

\* agent_selector.prompt_agent_selection for the operator's picks ("" when
\* a picker is dismissed): the mode, then one agent, or two for duo
prompt_agent_selection(mode, first, second) ==
    IF mode = "" THEN NoSelection
    ELSE IF mode = "duo"
         THEN IF first = "" \/ second = "" THEN NoSelection
              ELSE [mode |-> mode, info |-> <<first, second>>]
         ELSE IF first = "" THEN NoSelection
              ELSE [mode |-> mode, info |-> <<>>]

\* cli.main lines 83-103
select_agent ==
    /\ pc = "prompt_agent_selection"
    /\ \E mode \in {"", "single", "duo", "review"},
          first \in AvailableAgents \cup {""}, second \in AvailableAgents \cup {""} :
          /\ (mode = "" => first = "")
          /\ (mode # "duo" \/ first = "" => second = "")
          /\ second # first \/ second = ""
          /\ LET sel == prompt_agent_selection(mode, first, second)
             IN  /\ loc' = [loc EXCEPT !.selection = sel,
                                       !.picked = IF mode = "single" THEN first ELSE ""]
                 /\ IF sel = NoSelection
                    THEN Exit(0, NoMessage) /\ UNCHANGED cfg
                    ELSE /\ cfg' = [cfg EXCEPT !.argv = cfg.argv \o SelectionFlag(sel)]
                         /\ pc' = "parse_args"
                         /\ UNCHANGED <<exit_code, message>>
    /\ UNCHANGED <<gitvars, tmuxvars, histvars, env, cwd, stdin_reads, vcs_log, runs>>
    /\ UNCHANGED tmpfiles

\* cli.main lines 105-136: parse, keep the selected model, dispatch
parse_and_dispatch ==
    /\ pc = "parse_args"
    /\ \E stdin \in StdinTexts :
          LET parsed == parse_args(cfg.argv, stdin)
              sel == loc.selection
              model == IF sel.mode \in {"single", "review"} /\ Len(sel.info) = 2
                          /\ sel.info[1] = "oc" /\ sel.info[2] # ""
                       THEN sel.info[2] ELSE NoneVal
              fn == IF parsed.agent_mode = "dual" THEN "run_duo"
                    ELSE IF parsed.agent_mode = "review" THEN "run_duo_review"
                    ELSE "run_single"
          IN  IF parsed.error
              THEN Exit(2, Msg("unrecognized arguments")) /\ UNCHANGED <<cfg, loc>>
              ELSE /\ cfg' = [cfg EXCEPT !.agent_cmd = parsed.agent_cmd,
                                         !.agent_mode = parsed.agent_mode,
                                         !.prompt = parsed.prompt,
                                         !.selected_model = model]
                   /\ IF parsed.prompt = <<>>
                      THEN pc' = "handle_session_only" /\ UNCHANGED loc
                      ELSE /\ pc' = fn
                           /\ loc' = [loc EXCEPT !.started =
                                         Append(@, [fn |-> fn, agent_cmd |-> parsed.agent_cmd,
                                                    selected_model |-> model])]
                   /\ UNCHANGED <<exit_code, message>>
    /\ UNCHANGED <<gitvars, tmuxvars, histvars, env, cwd, stdin_reads, vcs_log, runs>>
    /\ UNCHANGED tmpfiles

NextSelect ==
    \/ main_select
    \/ select_agent
    \/ parse_and_dispatch

SpecSelect == InitSelect /\ [][NextSelect]_vars

\* ---- agents.py: the command builder and the shell that runs its line -----
BuilderAgents == {"claude", "codex"}
BuilderContexts == {NoCtx, [NoCtx EXCEPT !.form = "worktree", !.branch = <<"a">>]}
ExitStatuses == {0, 1}

InitBuilder ==
    /\ root = <<"/repo">>
    /\ branches = {<<"main">>}
    /\ worktrees = <<[path |-> MkPath(root, <<>>), branch |-> <<"main">>]>>
    /\ cwd = MkPath(root, <<>>)
    /\ dirs = {cwd}
    /\ basedirs = {}
    /\ dirty = {}
    /\ prompts = {}
    /\ tmux_server = TRUE
    /\ sessions = {}
    /\ windows = <<>>
    /\ pc = "builder"
    /\ cfg = CfgDefault
    /\ env = [EnvDefault EXCEPT !.TMUX = TRUE]
    /\ loc = LocInit
    /\ exit_code = -1
    /\ message = NoMessage
    /\ stdin_reads = 0
    /\ vcs_log = <<>>
    /\ runs = 0
    /\ at_invoke = [branches |-> branches, worktrees |-> worktrees, dirs |-> dirs,
                    dirty |-> dirty, windows |-> windows, sessions |-> sessions,
                    prompts |-> prompts]
    /\ alloc_prev = NoAlloc
    /\ alloc_chk = NoChk
    /\ duo_prev = NoDuo
    /\ edits = 0
    /\ tmpfiles = <<>>

\* one call of build_agent_command; its result is typed into a pane's shell
call_build_agent_command ==
    /\ pc \in {"builder", "shell_done", "pane_closed"}
    /\ runs < MaxRuns
    /\ runs' = runs + 1
    /\ \E agent \in BuilderAgents, context \in BuilderContexts, prompt \in Prompts :
          LET command == build_agent_command(agent, get_agent_flags(agent), context, prompt)
          IN  /\ tmpfiles' = WriteTemp(command)
              /\ cfg' = [cfg EXCEPT !.agent_cmd = agent, !.prompt = prompt]
              /\ loc' = [loc EXCEPT !.ctx[1] = context, !.command = command,
                                    !.agent_arg = <<>>, !.agent_status = -1]
    /\ pc' = "typed"
    /\ UNCHANGED <<gitvars, tmuxvars, histvars, env, cwd, exit_code, message, stdin_reads,
                   vcs_log>>

\* the shell expands "$(cat <file>)" and starts the agent with the result
shell_starts_agent ==
    /\ pc = "typed"
    /\ LET f == loc.command.cat
       IN  loc' = [loc EXCEPT !.agent_arg = IF f \in DOMAIN tmpfiles /\ tmpfiles[f].exists
                                            THEN tmpfiles[f].content ELSE <<>>]
    /\ pc' = "agent_running"
    /\ UNCHANGED <<gitvars, tmuxvars, histvars, cfg, env, cwd, exit_code, message,
                   stdin_reads, vcs_log, runs, tmpfiles>>

\* the agent exits; `&& rm -f <file>` runs the deletion after status 0 only
agent_exits ==
    /\ pc = "agent_running"
    /\ \E status \in ExitStatuses :
          /\ loc' = [loc EXCEPT !.agent_status = status]
          /\ tmpfiles' = IF status = 0 /\ loc.command.rm \in DOMAIN tmpfiles
                         THEN [tmpfiles EXCEPT ![loc.command.rm].exists = FALSE]
                         ELSE tmpfiles
    /\ pc' = "shell_done"
    /\ UNCHANGED <<gitvars, tmuxvars, histvars, cfg, env, cwd, exit_code, message,
                   stdin_reads, vcs_log, runs>>

\* the pane is closed while the agent runs: the rest of the line never runs
pane_closed ==
    /\ pc = "agent_running"
    /\ pc' = "pane_closed"
    /\ UNCHANGED <<gitvars, tmuxvars, histvars, cfg, env, cwd, loc, exit_code, message,
                   stdin_reads, vcs_log, runs, tmpfiles>>

NextBuilder ==
    \/ call_build_agent_command
    \/ shell_starts_agent
    \/ agent_exits
    \/ pane_closed

SpecBuilder == InitBuilder /\ [][NextBuilder]_vars

\* ------------------------------------------------------------------------
\* Properties
\* ------------------------------------------------------------------------
\* nothing was added to the repository since the invocation started
NothingCreated ==
    /\ branches \subseteq at_invoke.branches
    /\ Range(worktrees) \subseteq Range(at_invoke.worktrees)
    /\ dirs \subseteq at_invoke.dirs

\* the ref-name grammar, stated on the model's alphabet
RefGrammarRejects(name) ==
    \/ name = <<>>
    \/ name = NoneVal
    \/ Head(name) = "-"
    \/ \E i \in 1..Len(name) : name[i] = "~"

\* a branch named <base>-<agent>
IsAgentBranch(branch) ==
    /\ Len(branch) >= 3
    /\ branch[Len(branch) - 1] = "-"
    /\ branch[Len(branch)] \in {"claude", "codex", "amp"}

\* the bases of the duo pairs in the repository: two worktrees on agent
\* branches of one base
PairsInRepo ==
    {base \in {BaseOf(w.branch) : w \in {x \in Range(worktrees) : IsAgentBranch(x.branch)}} :
        \E w1, w2 \in Range(worktrees) :
            /\ w1.branch # w2.branch
            /\ IsAgentBranch(w1.branch) /\ BaseOf(w1.branch) = base
            /\ IsAgentBranch(w2.branch) /\ BaseOf(w2.branch) = base}

PathOfBranch(branch) == (CHOOSE w \in Range(worktrees) : w.branch = branch).path

\* C1: two consecutive successful calls of the allocator for the same name,
\* with nothing changed in between and the name not replaced at the fallback
\* prompt, return the same workspace path, and the second call issues no
\* VCS-mutating command
C1_AllocatorTwiceSamePath ==
    (alloc_chk.valid /\ ~alloc_chk.custom) =>
        (alloc_chk.second = alloc_chk.first /\ alloc_chk.muts = 0)

\* C2: a duo run that repeats the base name and agents of the previous duo
\* run, with nothing changed in between, succeeds on the two workspaces of
\* the previous run and creates no branch and no worktree
C2_DuoRerunReusesBoth ==
    (pc = "done" /\ loc.duo_same.valid) =>
        /\ exit_code = 0
        /\ loc.agent_worktree = loc.duo_same.paths
        /\ NothingCreated
        /\ \A i \in 1..2 :
              Cardinality({j \in 1..Len(worktrees) :
                              worktrees[j].branch = loc.agent_branch[i]}) = 1

\* C3: when the name a single or duo run is to use (given explicitly, produced
\* by the namer, or typed at the fallback prompt) is rejected by the ref-name
\* grammar, the run ends fatally on the validation and creates nothing
NamesOffered == {loc.branch_name, loc.base, loc.custom} \ {Unset}

C3_InvalidNameIsFatal ==
    (pc = "done" /\ cfg.cmd = "vibe" /\ \E n \in NamesOffered : RefGrammarRejects(n)) =>
        /\ exit_code # 0
        /\ message.kind \in {"Invalid branch name provided", "Generated invalid branch name",
                              "AI branch name generation failed"}
        /\ NothingCreated

C3_Witness ==
    /\ pc = "done"
    /\ cfg.cmd = "vibe"
    /\ cfg.agent_mode = "dual"
    /\ cfg.branch_name = <<"~">>
    /\ loc.base = <<"~">>
    /\ exit_code = 1

C5_ForcedCleanupRemovesDiscarded ==
    (/\ pc = "done"
     /\ cfg.cmd = "merge"
     /\ cfg.force
     /\ message.kind = "Cleanup complete"
     /\ loc.agent_worktree[3 - loc.keeping] \in at_invoke.dirty) =>
        /\ loc.agent_worktree[3 - loc.keeping] \notin dirs
        /\ ~Registered(loc.agent_worktree[3 - loc.keeping])
        /\ loc.agent_branch[3 - loc.keeping] \notin branches

\* C6: an agent-launching invocation (a prompt given to vibe, or the review
\* subcommand) outside a tmux session ends non-zero with the message telling
\* to start a session, and creates no workspace, branch or window
C6_OutsideTmuxRefused ==
    (/\ pc = "done"
     /\ ~env.TMUX
     /\ env.tmux_bin
     /\ (cfg.cmd = "review" \/ (cfg.cmd = "vibe" /\ cfg.prompt # ""))) =>
        /\ exit_code # 0
        /\ message.kind = "must be run inside an existing tmux session"
        /\ NothingCreated
        /\ windows = at_invoke.windows

\* C7: in a fresh repository with one branch, a duo run with claude and codex
\* whose namer returned base b ends with the two worktrees worktrees/b-claude
\* and worktrees/b-codex and nothing else added, one new window of two panes
\* titled claude and codex, and in each pane a command whose message holds
\* the prompt text
C7_FreshDuoRun ==
    (/\ pc = "done"
     /\ Cardinality(at_invoke.branches) = 1
     /\ Len(at_invoke.worktrees) = 1
     /\ cfg.cmd = "vibe"
     /\ cfg.agent_mode = "dual"
     /\ ~cfg.no_worktree
     /\ loc.agents = <<"claude", "codex">>
     /\ cfg.branch_name \in {NoneVal, <<>>}
     /\ ~RefGrammarRejects(loc.base)
     /\ loc.base # Unset
     /\ cfg.from_branch = NoneVal
     /\ ~cfg.from_master) =>
        LET b1 == AgentBranch(loc.base, "claude")
            b2 == AgentBranch(loc.base, "codex")
            p1 == MkPath(root, <<b1>>)
            p2 == MkPath(root, <<b2>>)
        IN  /\ exit_code = 0
            /\ worktrees = at_invoke.worktrees
                              \o <<[path |-> p1, branch |-> b1], [path |-> p2, branch |-> b2]>>
            /\ branches = at_invoke.branches \cup {b1, b2}
            /\ dirs = at_invoke.dirs \cup {p1, p2}
            /\ Len(windows) = Len(at_invoke.windows) + 1
            /\ SubSeq(windows, 1, Len(at_invoke.windows)) = at_invoke.windows
            /\ LET w == windows[Len(windows)]
               IN  /\ Len(w.panes) = 2
                   /\ w.panes[1].title = "claude" /\ w.panes[1].dir = p1
                   /\ w.panes[2].title = "codex" /\ w.panes[2].dir = p2
                   /\ \A i \in 1..2 :
                         \E k \in 1..Len(w.panes[i].keys) :
                             /\ w.panes[i].keys[k].kind = "command"
                             /\ w.panes[i].keys[k].bin = loc.agents[i]
                             /\ \E j \in 1..Len(w.panes[i].keys[k].message) :
                                   w.panes[i].keys[k].message[j].text = cfg.prompt

C7_Witness ==
    /\ pc = "done"
    /\ exit_code = 0
    /\ Cardinality(at_invoke.branches) = 1
    /\ Len(at_invoke.worktrees) = 1
    /\ cfg.cmd = "vibe"
    /\ cfg.agent_mode = "dual"
    /\ ~cfg.no_worktree
    /\ loc.agents = <<"claude", "codex">>
    /\ cfg.branch_name = NoneVal
    /\ cfg.prompt = "implement phase"
    /\ Len(worktrees) = 3
    /\ Len(windows) = 1

\* the review resolver has just returned or failed
ReviewResolverMessages ==
    {"No existing duo worktrees found", "Invalid selection for review base",
     "Multiple duo worktrees found"}
AfterReviewResolver ==
    \/ pc = "read_duo_prompt"
    \/ pc = "done" /\ message.kind \in ReviewResolverMessages

C10_FromMasterAlwaysTrunk ==
    (pc = "resolved" /\ InWorktree /\ cfg.from_master) => loc.source_ref = <<"master">>

\* C10: inside a worktree with from-master set and no explicit source branch
\* given, the resolved source ref is the trunk ref, whatever the current
\* branch, the local branches and the terminal are
C10_FromMasterWithoutOverride ==
    (pc = "resolved" /\ InWorktree /\ cfg.from_master /\ cfg.from_branch = NoneVal)
        => loc.source_ref = <<"master">>

C10_Witness ==
    /\ pc = "resolved"
    /\ InWorktree
    /\ loc.fn = "gitops.determine_source_ref"
    /\ cfg.from_master
    /\ cfg.from_branch = NoneVal
    /\ loc.branch_name = <<"a">>
    /\ <<"master">> \notin branches
    /\ env.tty = "yes"
    /\ loc.source_ref = <<"master">>

\* C11: a duo run under the no-worktree policy leaves the branches and the
\* worktrees as they were, every pane it opens is on the current directory,
\* and when it succeeds it has opened one window of two panes
C11_DuoNoWorktreeFrame ==
    (cfg.cmd = "vibe" /\ cfg.agent_mode = "dual" /\ cfg.no_worktree /\ pc # "idle") =>
        /\ branches = at_invoke.branches
        /\ worktrees = at_invoke.worktrees
        /\ \A i \in (Len(at_invoke.windows) + 1)..Len(windows) :
              \A j \in 1..Len(windows[i].panes) : windows[i].panes[j].dir = cwd
        /\ (pc = "done" /\ exit_code = 0) =>
              /\ Len(windows) = Len(at_invoke.windows) + 1
              /\ Len(windows[Len(windows)].panes) = 2

C11_Witness ==
    /\ pc = "done"
    /\ exit_code = 0
    /\ cfg.cmd = "vibe"
    /\ cfg.agent_mode = "dual"
    /\ cfg.no_worktree
    /\ Len(windows) = Len(at_invoke.windows) + 1
    /\ Len(windows[Len(windows)].panes) = 2
    /\ windows[Len(windows)].panes[1].dir = cwd
    /\ windows[Len(windows)].panes[2].dir = cwd

\* C12: when no agent flag is given and the operator picks single mode and
\* an agent, main dispatches exactly one workflow: run_single with that agent
C12_SingleSelectionStartsPicked ==
    (/\ pc \in {"run_single", "run_duo", "run_duo_review"}
     /\ loc.selection.mode = "single") =>
        /\ Len(loc.started) = 1
        /\ loc.started[1].fn = "run_single"
        /\ loc.started[1].agent_cmd = loc.picked

\* the text the builder is to write for a context and a prompt
ExpectedMessage(context, prompt) ==
    IF prompt = "" THEN <<[text |-> "", context |-> context]>>
    ELSE <<[text |-> "", context |-> context], [text |-> "\n\n", context |-> NoCtx],
           [text |-> prompt, context |-> NoCtx]>>

\* C13: each call of the command builder adds exactly one file; the file
\* holds the context alone for an empty prompt and else the context, a blank
\* line and the prompt; the command reads that file and deletes that file
C13_BuilderOneFile ==
    /\ Len(tmpfiles) = runs
    /\ pc = "typed" =>
          /\ loc.command.cat = Len(tmpfiles)
          /\ loc.command.rm = loc.command.cat
          /\ tmpfiles[Len(tmpfiles)].exists
          /\ tmpfiles[Len(tmpfiles)].content = ExpectedMessage(loc.ctx[1], cfg.prompt)
    /\ pc = "agent_running" => loc.agent_arg = ExpectedMessage(loc.ctx[1], cfg.prompt)

C13_Witness ==
    /\ pc = "typed"
    /\ runs = 2
    /\ cfg.prompt # ""
    /\ Len(tmpfiles[2].content) = 3
    /\ loc.command.cat = 2

\* C14: once the command line has run to the end of the agent process, the
\* message file of that command no longer exists, whatever the exit status
C14_TempFileGoneAfterExit ==
    pc = "shell_done" => ~tmpfiles[loc.command.cat].exists

\* the VCS writes of the allocator call in progress, or of the last one
AllocLog == SubSeq(vcs_log, loc.entry_log + 1, Len(vcs_log))

\* the VCS writes of each of the allocator's four cases
CaseWrites(case) ==
    IF case = 1 THEN {<<>>}
    ELSE IF case = 2 THEN {<<"worktree prune", "worktree add">>}
    ELSE IF case = 3 THEN {<<"worktree add">>}
    ELSE {<<"worktree add -b">>, <<"worktree add -b", "worktree add -b">>}

IsPrefix(s, t) == Len(s) <= Len(t) /\ SubSeq(t, 1, Len(s)) = s

\* C15: an allocator call issues the VCS writes of exactly the case the
\* repository is in when it is called (none; prune and add; add; add -b with
\* the source ref), and a call that returns has issued all of them
C15_AllocatorCaseOrder ==
    loc.case # 0 =>
        /\ \E full \in CaseWrites(loc.case) : IsPrefix(AllocLog, full)
        /\ (loc.fn = "" /\ exit_code \in {-1, 0}) => AllocLog \in CaseWrites(loc.case)

\* C16: a call that finds the branch's worktree recorded at a path whose
\* directory is gone prunes, recreates the worktree at that recorded path and
\* returns that path
C16_StaleRecreatedAtRecordedPath ==
    (loc.case = 2 /\ loc.fn = "" /\ exit_code \in {-1, 0} /\ alloc_prev.name = loc.arg_branch) =>
        /\ AllocLog = <<"worktree prune", "worktree add">>
        /\ \E w \in Range(at_invoke.worktrees) :
              /\ w.branch = loc.arg_branch
              /\ alloc_prev.path = w.path
              /\ w.path \in dirs
              /\ \E v \in Range(worktrees) : v = w

\* C17: a single or duo run that aborts on an invalid branch name has issued
\* no VCS write (not even the pull) and has left the branches, the worktrees
\* and the directories as they were
C17_InvalidNameBeforeAnyWrite ==
    (/\ pc = "done"
     /\ cfg.cmd = "vibe"
     /\ message.kind = "Invalid branch name provided") =>
        /\ vcs_log = <<>>
        /\ branches = at_invoke.branches
        /\ worktrees = at_invoke.worktrees
        /\ dirs = at_invoke.dirs

\* C18: both resolvers return the explicit override whenever one is given,
\* whatever the from-master flag, the current directory and the local
\* branches are
C18_OverrideWins ==
    (pc = "resolved" /\ cfg.from_branch \notin {NoneVal, <<>>}) =>
        loc.source_ref = cfg.from_branch

C18_Witness ==
    /\ pc = "resolved"
    /\ loc.fn = "gitops.determine_source_ref"
    /\ cfg.from_branch = <<"nosuch">>
    /\ cfg.from_master
    /\ InWorktree
    /\ <<"master">> \in branches
    /\ loc.source_ref = <<"nosuch">>

\* C19: with no explicit override and from-master unset, a resolver returns
\* the branch checked out in the worktree (by name or as HEAD) when the
\* current directory is inside a worktree tree, and the symbolic HEAD when it
\* is not
C19_DefaultIsCurrentOrHead ==
    (pc = "resolved" /\ cfg.from_branch \in {NoneVal, <<>>} /\ ~cfg.from_master) =>
        IF InWorktree THEN loc.source_ref \in {loc.branch_name, <<"HEAD">>}
        ELSE loc.source_ref = <<"HEAD">>

\* the workspaces a run with worktrees needs: one in single mode, two in duo
WorkspacesNeeded == IF cfg.agent_mode = "dual" THEN {1, 2} ELSE {1}

\* C20: in a single or duo run with worktrees, a window exists (and so a
\* pane, and so an injected command) only after every workspace the mode needs
\* has been returned by the allocator, and a run that fails leaves the windows
\* as they were
C20_WorkspacesBeforeWindows ==
    (/\ cfg.cmd = "vibe" /\ ~cfg.no_worktree /\ cfg.agent_mode \in {"single", "dual"}
     /\ pc # "idle") =>
        /\ windows # at_invoke.windows =>
              \A i \in WorkspacesNeeded : loc.agent_worktree[i] # NoPath
        /\ (pc = "done" /\ exit_code # 0) => windows = at_invoke.windows
        /\ (pc = "done" /\ exit_code = 0 /\ cfg.prompt # "") => windows # at_invoke.windows

C20_Witness ==
    /\ pc = "done"
    /\ exit_code = 0
    /\ cfg.cmd = "vibe" /\ ~cfg.no_worktree /\ cfg.agent_mode = "dual"
    /\ Len(windows) = Len(at_invoke.windows) + 1
    /\ Len(windows[Len(windows)].panes) = 2
    /\ loc.agent_worktree[1] \in dirs
    /\ loc.agent_worktree[2] \in dirs
    /\ loc.agent_worktree[1] # loc.agent_worktree[2]

\* the tmux commands of a finished duo or review run, in order
DuoTmuxOrder ==
    << [op |-> "new-window", pane |-> 0, keys |-> ""],
       [op |-> "split-window", pane |-> 0, keys |-> ""],
       [op |-> "setw", pane |-> 0, keys |-> ""],
       [op |-> "send-keys", pane |-> 1, keys |-> "C-m"],
       [op |-> "send-keys", pane |-> 2, keys |-> "C-m"],
       [op |-> "select-pane -T", pane |-> 1, keys |-> ""],
       [op |-> "select-pane -T", pane |-> 2, keys |-> ""],
       [op |-> "send-keys", pane |-> 1, keys |-> "command"],
       [op |-> "send-keys", pane |-> 2, keys |-> "command"] >>

\* positions of a command in the run's log
LogAt(op, pane, keys) ==
    {i \in 1..Len(loc.tmux_log) : loc.tmux_log[i] = [op |-> op, pane |-> pane, keys |-> keys]}

\* C21: in a duo or review run the window is created, then split, then both
\* titles are set, then the left pane's agent command is injected, then the
\* right pane's; each at most once, and none before the ones it follows
C21_DuoTmuxSequence ==
    (cfg.agent_mode \in {"dual", "review"} /\ pc # "idle") =>
        /\ IsPrefix(loc.tmux_log, DuoTmuxOrder)
        /\ \A r \in LogAt("send-keys", 2, "command") :
              \E l \in LogAt("send-keys", 1, "command") : l < r
        /\ \A c \in LogAt("send-keys", 1, "command") \cup LogAt("send-keys", 2, "command") :
              /\ \E t \in LogAt("select-pane -T", 1, "") : t < c
              /\ \E t \in LogAt("select-pane -T", 2, "") : t < c
        /\ \A t \in LogAt("select-pane -T", 1, "") \cup LogAt("select-pane -T", 2, "") :
              \E s \in LogAt("split-window", 0, "") :
                 /\ s < t
                 /\ \E w \in LogAt("new-window", 0, "") : w < s
        /\ (pc = "done" /\ exit_code = 0) => loc.tmux_log = DuoTmuxOrder

C21_Witness ==
    /\ pc = "done"
    /\ exit_code = 0
    /\ cfg.agent_mode = "review"
    /\ loc.tmux_log = DuoTmuxOrder
    /\ windows[loc.window_id].panes[2].title = "codex"

\* C22: after a VCS or tmux command of the run has failed, no agent command
\* is injected and the run ends with a non-zero exit status
C22_FailedPrimitiveAborts ==
    (loc.failed # {} /\ pc # "idle") =>
        /\ LogAt("send-keys", 1, "command") \cup LogAt("send-keys", 2, "command") = {}
        /\ pc = "done" => exit_code # 0

\* a duo run that has ended on a failure of its second allocation
SecondAllocationFailed ==
    /\ pc = "done"
    /\ exit_code # 0
    /\ cfg.agent_mode = "dual"
    /\ loc.agent_idx = 2
    /\ loc.agent_worktree[2] = NoPath

\* the first agent's branch with a registered worktree whose directory exists
FirstWorkspaceIn(reg, brs, ds) ==
    /\ loc.agent_branch[1] \in brs
    /\ \E w \in Range(reg) : w.branch = loc.agent_branch[1] /\ w.path \in ds

\* a duo run for the base and agents of the run before it, which failed in
\* its second allocation
RerunOfHalfPair ==
    /\ loc.half # NoHalf
    /\ cfg.agent_mode = "dual"
    /\ loc.agent_idx >= 1
    /\ loc.base = loc.half.base
    /\ loc.agents = loc.half.agents

\* C23: a duo run whose second allocation fails ends with a non-zero status
\* and leaves the first agent's branch and worktree in place; the next duo
\* run for the same base does not fail on the first workspace, uses it at
\* its path without a VCS write, and adds only the second workspace
C23_HalfPairLeftAndReused ==
    /\ SecondAllocationFailed =>
          /\ FirstWorkspaceIn(worktrees, branches, dirs)
          /\ at_invoke.branches \subseteq branches
          /\ Range(at_invoke.worktrees) \subseteq Range(worktrees)
          /\ at_invoke.dirs \subseteq dirs
    /\ RerunOfHalfPair =>
          /\ (pc = "done" /\ exit_code # 0) => loc.agent_idx = 2
          /\ loc.agent_idx = 2 =>
                /\ loc.agent_worktree[1] = loc.half.first
                /\ [path |-> loc.agent_worktree[1], branch |-> loc.agent_branch[1]]
                      \in Range(at_invoke.worktrees)
                /\ FirstWorkspaceIn(at_invoke.worktrees, at_invoke.branches, at_invoke.dirs)
                /\ FirstWorkspaceIn(worktrees, branches, dirs)
          /\ loc.agent_worktree[2] # NoPath =>
                /\ SelectSeq(vcs_log, LAMBDA c : c # "pull") \in
                       {<<"worktree add -b">>, <<"worktree add">>}
                /\ worktrees = Append(at_invoke.worktrees,
                                      [path |-> loc.agent_worktree[2],
                                       branch |-> loc.agent_branch[2]])
                /\ branches = at_invoke.branches \cup {loc.agent_branch[2]}

\* the command that creates branch and worktree was issued and failed, and
\* no replacement name has been entered
CreateFailed ==
    /\ loc.fn \in {"setup_worktree", "prepare_agent_worktree"}
    /\ loc.case = 4
    /\ AllocLog # <<>>
    /\ loc.custom = Unset
    /\ pc \in {"setup_worktree_fallback", "done"}

\* C24: after a failed creation the operator is asked for another name only
\* when standard input is a terminal; when it is not, the run ends with the
\* hint to use --no-worktree, has read no input, and has created no branch
\* and no worktree
C24_FallbackOnlyOnTerminal ==
    /\ loc.custom # Unset => env.tty = "yes"
    /\ (cfg.cmd = "vibe" /\ stdin_reads > 0) => env.tty = "yes"
    /\ (CreateFailed /\ pc = "done" /\ env.tty = "no") =>
          /\ exit_code # 0
          /\ message = Msg("Cannot prompt for input in non-interactive mode")
          /\ stdin_reads = 0
          /\ NothingCreated

\* ---- worktree.py: two orchestrator processes in one repository ----------
\* Each process runs one allocator call for the same new branch name; every
\* git command is one step, and the steps of the two processes interleave.
\* Here pc, loc, exit_code, message and stdin_reads are functions of the
\* process.
Procs == {1, 2}
RaceName == <<"a">>
RaceCustomNames == {<<>>, <<"a">>, <<"b">>}

ProcInit ==
    [fn |-> "", worktree_path |-> NoPath, source_ref |-> Unset, custom |-> Unset,
     tty |-> "unset", created |-> {}, fallback |-> FALSE, returned |-> NoPath]

InitRace ==
    /\ root = <<"/repo">>
    /\ \E trunk \in TrunkChoices :
          /\ branches = {trunk}
          /\ worktrees = <<[path |-> MkPath(root, <<>>), branch |-> trunk]>>
    /\ cwd = MkPath(root, <<>>)
    /\ dirs = {cwd}
    /\ basedirs = {}
    /\ dirty = {}
    /\ prompts = {}
    /\ tmux_server = TRUE
    /\ sessions = {}
    /\ windows = <<>>
    /\ pc = [p \in Procs |-> "allocate"]
    /\ cfg = CfgDefault
    /\ env = [EnvDefault EXCEPT !.TMUX = TRUE]
    /\ loc = [p \in Procs |-> ProcInit]
    /\ exit_code = [p \in Procs |-> -1]
    /\ message = [p \in Procs |-> NoMessage]
    /\ stdin_reads = [p \in Procs |-> 0]
    /\ vcs_log = <<>>
    /\ runs = 0
    /\ at_invoke = [branches |-> branches, worktrees |-> worktrees, dirs |-> dirs,
                    dirty |-> dirty, windows |-> windows, sessions |-> sessions,
                    prompts |-> prompts]
    /\ alloc_prev = NoAlloc
    /\ alloc_chk = NoChk
    /\ duo_prev = NoDuo
    /\ edits = 0
    /\ tmpfiles = <<>>

RaceFrame ==
    UNCHANGED <<root, dirty, prompts, tmuxvars, histvars, cfg, env, cwd, runs, tmpfiles>>

ProcExit(p, code, msg) ==
    /\ pc' = [pc EXCEPT ![p] = "done"]
    /\ exit_code' = [exit_code EXCEPT ![p] = code]
    /\ message' = [message EXCEPT ![p] = msg]

ProcReturn(p, l, path) ==
    /\ pc' = [pc EXCEPT ![p] = "done"]
    /\ exit_code' = [exit_code EXCEPT ![p] = 0]
    /\ loc' = [loc EXCEPT ![p] = [l EXCEPT !.returned = path]]
    /\ UNCHANGED message

\* entry of setup_worktree or prepare_agent_worktree: ensure_worktree_dir;
\* the duo workflow has resolved the source ref before the call
race_allocate(p) ==
    /\ pc[p] = "allocate"
    /\ \E fn \in {"setup_worktree", "prepare_agent_worktree"} :
          loc' = [loc EXCEPT ![p] = [@ EXCEPT !.fn = fn,
                                              !.worktree_path = WorktreePath(cwd, RaceName),
                                              !.source_ref = HeadBranch(cwd)]]
    /\ basedirs' = EnsuredBase
    /\ pc' = [pc EXCEPT ![p] = "find_existing_worktree"]
    /\ UNCHANGED <<branches, worktrees, dirs, exit_code, message, stdin_reads, vcs_log>>
    /\ RaceFrame

\* git worktree list --porcelain; a mapping whose directory is gone cannot
\* be met here, no directory is removed while the two processes run
race_find_existing_worktree(p) ==
    /\ pc[p] = "find_existing_worktree"
    /\ LET existing == find_existing_worktree(RaceName)
       IN  IF existing # NoPath
           THEN IF existing \in dirs
                THEN ProcReturn(p, loc[p], existing)
                ELSE /\ pc' = [pc EXCEPT ![p] = "alloc_prune"]
                     /\ UNCHANGED <<loc, exit_code, message>>
           ELSE /\ pc' = [pc EXCEPT ![p] = "branch_exists"]
                /\ UNCHANGED <<loc, exit_code, message>>
    /\ UNCHANGED <<branches, worktrees, dirs, basedirs, stdin_reads, vcs_log>>
    /\ RaceFrame

\* git show-ref --verify refs/heads/<name>
race_branch_exists(p) ==
    /\ pc[p] = "branch_exists"
    /\ pc' = [pc EXCEPT ![p] = IF branch_exists(RaceName) THEN "worktree_add"
                               ELSE "worktree_add_b"]
    /\ UNCHANGED <<branches, worktrees, dirs, basedirs, loc, exit_code, message,
                   stdin_reads, vcs_log>>
    /\ RaceFrame

\* git worktree add <path> <name>, check=True
race_worktree_add(p) ==
    /\ pc[p] = "worktree_add"
    /\ vcs_log' = Append(vcs_log, "worktree add")
    /\ IF CanWorktreeAdd(loc[p].worktree_path, RaceName)
       THEN /\ worktrees' = Append(worktrees, [path |-> loc[p].worktree_path,
                                               branch |-> RaceName])
            /\ dirs' = dirs \cup {loc[p].worktree_path}
            /\ ProcReturn(p, loc[p], loc[p].worktree_path)
       ELSE /\ ProcExit(p, 1, Msg("CalledProcessError"))
            /\ UNCHANGED <<worktrees, dirs, loc>>
    /\ UNCHANGED <<branches, basedirs, stdin_reads>>
    /\ RaceFrame

\* git worktree add -b <name> <path> <source_ref>
race_worktree_add_b(p) ==
    /\ pc[p] = "worktree_add_b"
    /\ vcs_log' = Append(vcs_log, "worktree add -b")
    /\ IF CanWorktreeAddNew(RaceName, loc[p].worktree_path, loc[p].source_ref, cwd)
       THEN /\ branches' = branches \cup {RaceName}
            /\ worktrees' = Append(worktrees, [path |-> loc[p].worktree_path,
                                               branch |-> RaceName])
            /\ dirs' = dirs \cup {loc[p].worktree_path}
            /\ ProcReturn(p, [loc[p] EXCEPT !.created = {RaceName}], loc[p].worktree_path)
       ELSE /\ branches' = BranchesAfterFailedAdd(RaceName, loc[p].worktree_path,
                                                   loc[p].source_ref, cwd)
            /\ UNCHANGED <<worktrees, dirs>>
            /\ IF loc[p].fn = "prepare_agent_worktree"
               THEN /\ ProcExit(p, 1, Msg("CalledProcessError"))
                    /\ \E t \in {"yes", "no"} :
                          loc' = [loc EXCEPT ![p] = [@ EXCEPT !.tty = t]]
               ELSE /\ pc' = [pc EXCEPT ![p] = "fallback"]
                    /\ UNCHANGED <<loc, exit_code, message>>
    /\ UNCHANGED <<basedirs, stdin_reads>>
    /\ RaceFrame

\* except subprocess.CalledProcessError, in setup_worktree only
race_fallback(p) ==
    /\ pc[p] = "fallback"
    /\ \E t \in {"yes", "no"}, custom \in RaceCustomNames :
          IF t = "no"
          THEN /\ custom = <<>>
               /\ ProcExit(p, 1, Msg("Cannot prompt for input in non-interactive mode"))
               /\ loc' = [loc EXCEPT ![p] = [@ EXCEPT !.tty = t, !.fallback = TRUE]]
               /\ UNCHANGED stdin_reads
          ELSE /\ stdin_reads' = [stdin_reads EXCEPT ![p] = @ + 1]
               /\ loc' = [loc EXCEPT ![p] = [@ EXCEPT !.tty = t, !.fallback = TRUE,
                                                   !.custom = custom,
                                                   !.worktree_path = WorktreePath(cwd, custom)]]
               /\ IF custom = <<>>
                  THEN ProcExit(p, 1, Msg("No branch name provided"))
                  ELSE /\ pc' = [pc EXCEPT ![p] = "worktree_add_custom"]
                       /\ UNCHANGED <<exit_code, message>>
    /\ UNCHANGED <<branches, worktrees, dirs, basedirs, vcs_log>>
    /\ RaceFrame

\* git worktree add -b <custom> <path> HEAD
race_worktree_add_custom(p) ==
    /\ pc[p] = "worktree_add_custom"
    /\ vcs_log' = Append(vcs_log, "worktree add -b")
    /\ IF CanWorktreeAddNew(loc[p].custom, loc[p].worktree_path, <<"HEAD">>, cwd)
       THEN /\ branches' = branches \cup {loc[p].custom}
            /\ worktrees' = Append(worktrees, [path |-> loc[p].worktree_path,
                                               branch |-> loc[p].custom])
            /\ dirs' = dirs \cup {loc[p].worktree_path}
            /\ ProcReturn(p, [loc[p] EXCEPT !.created = {loc[p].custom}],
                          loc[p].worktree_path)
       ELSE /\ branches' = BranchesAfterFailedAdd(loc[p].custom, loc[p].worktree_path,
                                                   <<"HEAD">>, cwd)
            /\ ProcExit(p, 1, Msg("CalledProcessError"))
            /\ UNCHANGED <<worktrees, dirs, loc>>
    /\ UNCHANGED <<basedirs, stdin_reads>>
    /\ RaceFrame

NextRace ==
    \E p \in Procs :
        \/ race_allocate(p)
        \/ race_find_existing_worktree(p)
        \/ race_branch_exists(p)
        \/ race_worktree_add(p)
        \/ race_worktree_add_b(p)
        \/ race_fallback(p)
        \/ race_worktree_add_custom(p)

SpecRace == InitRace /\ [][NextRace]_vars

\* C25: of two processes that allocate the same new branch at the same
\* time at most one creates the branch and its worktree, and the other one,
\* when its git command fails, has gone through the fallback of the
\* allocator: asked for another name on a terminal, ended with the hint to
\* use --no-worktree otherwise
C25_RaceLoserTakesFallback ==
    /\ Cardinality({p \in Procs : RaceName \in loc[p].created}) <= 1
    /\ Cardinality({i \in 1..Len(worktrees) : worktrees[i].branch = RaceName}) <= 1
    /\ \A p \in Procs :
          (pc[p] = "done" /\ exit_code[p] # 0) =>
              /\ loc[p].fallback
              /\ loc[p].tty = "no" =>
                    message[p] = Msg("Cannot prompt for input in non-interactive mode")
              /\ loc[p].tty = "yes" => stdin_reads[p] = 1

\* the registered paths and the branches, directories, prompt files and
\* windows are those of the start of the run
NothingRemoved ==
    /\ branches = at_invoke.branches
    /\ {w.path : w \in Range(worktrees)} = {w.path : w \in Range(at_invoke.worktrees)}
    /\ dirs = at_invoke.dirs
    /\ prompts = at_invoke.prompts
    /\ windows = at_invoke.windows

\* C26: when `git merge` returns a non-zero status, the merge run reports it
\* and ends at once: the merge is the last git command (nothing resolves or
\* aborts it, the unmerged files stay), no cleanup question is asked, and no
\* worktree, branch, prompt file or window is removed
C26_ConflictStopsWithoutCleanup ==
    (cfg.cmd = "merge" /\ pc # "idle" /\ message = Msg("Merge command exited with status")) =>
        /\ pc = "done"
        /\ vcs_log # <<>> /\ vcs_log[Len(vcs_log)] = "merge"
        /\ Cardinality({i \in 1..Len(vcs_log) : vcs_log[i] = "merge"}) = 1
        /\ loc.repo_root \in dirty
        /\ loc.task = 0
        /\ NothingRemoved

C26_Witness ==
    /\ pc = "done"
    /\ cfg.cmd = "merge"
    /\ message = Msg("Merge command exited with status")
    /\ vcs_log = <<"fetch", "checkout", "merge">>
    /\ prompts # {}
    /\ loc.repo_root \notin at_invoke.dirty

\* the merge run has chosen its pair, the working tree it merges in had
\* uncommitted changes when the run started, and --force was not given
DirtyTargetNoForce ==
    /\ cfg.cmd = "merge"
    /\ pc # "idle"
    /\ loc.repo_root # NoPath
    /\ loc.repo_root \in at_invoke.dirty
    /\ ~cfg.force

MaxCalls == 2
SocketChoices == {NoneVal, <<>>, <<"s">>}

\* configure_tmux(socket): the value of TMUX_SOCKET_ARGS afterwards
configure_tmux(socket) ==
    IF socket \notin {NoneVal, <<>>} THEN <<"-L">> \o socket ELSE <<>>

\* the functions of tmux.py that start tmux, and the sub-command of each
TmuxFunctions ==
    {"session_exists", "list_vibe_sessions", "attach_session", "switch_client",
     "new_session", "new_window", "split_window", "set_window_dir", "select_pane",
     "set_pane_title", "send_keys", "current_pane", "list_windows", "kill_window"}

TmuxSubcommand(fn) ==
    CASE fn = "session_exists" -> "has-session"
      [] fn = "list_vibe_sessions" -> "list-sessions"
      [] fn = "attach_session" -> "attach-session"
      [] fn = "switch_client" -> "switch-client"
      [] fn = "new_session" -> "new-session"
      [] fn = "new_window" -> "new-window"
      [] fn = "split_window" -> "split-window"
      [] fn = "set_window_dir" -> "setw"
      [] fn = "select_pane" -> "select-pane"
      [] fn = "set_pane_title" -> "select-pane"
      [] fn = "send_keys" -> "send-keys"
      [] fn = "current_pane" -> "display-message"
      [] fn = "list_windows" -> "list-windows"
      [] fn = "kill_window" -> "kill-window"

\* the command line fn starts: run_tmux and the delayed kill put
\* TMUX_SOCKET_ARGS after "tmux"; session_exists, list_vibe_sessions and
\* set_window_dir call subprocess.run(["tmux", ...]) themselves
TmuxArgv(fn, socket_args) ==
    IF fn \in {"session_exists", "list_vibe_sessions", "set_window_dir"}
    THEN <<"tmux", TmuxSubcommand(fn)>>
    ELSE <<"tmux">> \o socket_args \o <<TmuxSubcommand(fn)>>

InitSocket ==
    /\ root = <<"/repo">>
    /\ branches = {<<"main">>}
    /\ worktrees = <<[path |-> MkPath(root, <<>>), branch |-> <<"main">>]>>
    /\ cwd = MkPath(root, <<>>)
    /\ dirs = {cwd}
    /\ basedirs = {}
    /\ dirty = {}
    /\ prompts = {}
    /\ tmux_server = TRUE
    /\ sessions = {}
    /\ windows = <<>>
    /\ pc = "main"
    /\ \E s \in SocketChoices : cfg = [tmux_socket |-> s]
    /\ env = [TMUX_SOCKET_ARGS |-> <<>>]
    /\ loc = [tmux_log |-> <<>>]
    /\ exit_code = -1
    /\ message = NoMessage
    /\ stdin_reads = 0
    /\ vcs_log = <<>>
    /\ runs = 0
    /\ at_invoke = [branches |-> branches, worktrees |-> worktrees, dirs |-> dirs,
                    dirty |-> dirty, windows |-> windows, sessions |-> sessions,
                    prompts |-> prompts]
    /\ alloc_prev = NoAlloc
    /\ alloc_chk = NoChk
    /\ duo_prev = NoDuo
    /\ edits = 0
    /\ tmpfiles = <<>>

\* cli.main, line 119
main_configure_tmux ==
    /\ pc = "main"
    /\ env' = [env EXCEPT !.TMUX_SOCKET_ARGS = configure_tmux(cfg.tmux_socket)]
    /\ pc' = "configured"
    /\ UNCHANGED <<gitvars, tmuxvars, histvars, cfg, cwd, loc, exit_code, message,
                   stdin_reads, vcs_log, runs, tmpfiles>>

\* a workflow calls a function of tmux.py
tmux_call ==
    /\ pc = "configured"
    /\ Len(loc.tmux_log) < MaxCalls
    /\ \E fn \in TmuxFunctions :
          loc' = [loc EXCEPT !.tmux_log = Append(@, TmuxArgv(fn, env.TMUX_SOCKET_ARGS))]
    /\ UNCHANGED <<gitvars, tmuxvars, histvars, cfg, env, cwd, pc, exit_code, message,
                   stdin_reads, vcs_log, runs, tmpfiles>>

NextSocket == main_configure_tmux \/ tmux_call

SpecSocket == InitSocket /\ [][NextSocket]_vars

\* C28: once a private socket s is configured, every tmux command line
\* started afterwards names it: tmux -L s ...
C28_EveryCommandOnSocket ==
    (pc = "configured" /\ cfg.tmux_socket \notin {NoneVal, <<>>}) =>
        \A i \in 1..Len(loc.tmux_log) :
            /\ Len(loc.tmux_log[i]) >= 3
            /\ loc.tmux_log[i][2] = "-L"
            /\ <<loc.tmux_log[i][3]>> = cfg.tmux_socket

\* ---- src/vibe/cli.py: the single-file version of the tool ----------------
\* its main starts agent work in the current session when inside tmux, and
\* through run_with_tmux when outside
InitLegacy ==
    /\ root \in RootChoices
    /\ branches = {<<"main">>}
    /\ worktrees = <<[path |-> MkPath(root, <<>>), branch |-> <<"main">>]>>
    /\ cwd = MkPath(root, <<>>)
    /\ dirs = {cwd} \cup (IF Len(root) > 1 THEN {PrefixDir(root)} ELSE {})
    /\ basedirs = {}
    /\ dirty = {}
    /\ prompts = {}
    /\ tmux_server \in BOOLEAN
    /\ sessions \in IF tmux_server THEN {{<<"0">>}, {<<"0">>, get_session_name(cwd)}}
                    ELSE {{}}
    /\ windows = <<>>
    /\ pc = "idle"
    /\ cfg = CfgDefault
    /\ env = EnvDefault
    /\ loc = LocInit
    /\ exit_code = 0
    /\ message = NoMessage
    /\ stdin_reads = 0
    /\ vcs_log = <<>>
    /\ runs = 0
    /\ at_invoke = [branches |-> branches, worktrees |-> worktrees, dirs |-> dirs,
                    dirty |-> dirty, windows |-> windows, sessions |-> sessions,
                    prompts |-> prompts]
    /\ alloc_prev = NoAlloc
    /\ alloc_chk = NoChk
    /\ duo_prev = NoDuo
    /\ edits = 0
    /\ tmpfiles = <<>>

LegacyFrame ==
    UNCHANGED <<gitvars, windows, alloc_prev, alloc_chk, duo_prev, edits, cwd, stdin_reads,
                vcs_log, tmpfiles>>

LegacyLog(l, ops) ==
    [l EXCEPT !.tmux_log = @ \o [i \in 1..Len(ops) |-> [op |-> ops[i], pane |-> 0, keys |-> ""]]]

\* the operator starts the script, inside a tmux client or not
legacy_invoke ==
    /\ pc \in {"idle", "done"}
    /\ runs < MaxRuns
    /\ runs' = runs + 1
    /\ \E p \in Prompts, mode \in {"single", "dual"}, t \in BOOLEAN, tb \in BOOLEAN :
          /\ (t => tmux_server /\ tb)
          /\ (p = "" => mode = "single")
          /\ cfg' = [CfgDefault EXCEPT !.prompt = p, !.agent_mode = mode]
          /\ env' = [EnvDefault EXCEPT !.TMUX = t, !.tmux_bin = tb]
    /\ pc' = "main"
    /\ loc' = LocInit
    /\ exit_code' = -1
    /\ message' = NoMessage
    /\ at_invoke' = [branches |-> branches, worktrees |-> worktrees, dirs |-> dirs,
                     dirty |-> dirty, windows |-> windows, sessions |-> sessions,
                     prompts |-> prompts]
    /\ UNCHANGED <<sessions, tmux_server>>
    /\ LegacyFrame

\* main, lines 803-826
legacy_main ==
    /\ pc = "main"
    /\ IF ~env.tmux_bin THEN Exit(1, Msg("tmux not found"))
       ELSE /\ pc' = IF cfg.prompt = "" THEN "handle_session_only"
                     ELSE IF env.TMUX THEN "run_in_session"
                     ELSE "run_with_tmux"
            /\ UNCHANGED <<exit_code, message>>
    /\ UNCHANGED <<sessions, tmux_server, cfg, env, loc, runs, at_invoke>>
    /\ LegacyFrame

\* handle_session_only, lines 284-300: switch or attach to the session of
\* that name, or create it
legacy_handle_session_only ==
    /\ pc = "handle_session_only"
    /\ LET name == get_session_name(cwd)
       IN  /\ sessions' = sessions \cup {name}
           /\ loc' = LegacyLog(loc, IF name \in sessions
                                    THEN <<"has-session",
                                           IF env.TMUX THEN "switch-client" ELSE "attach-session">>
                                    ELSE IF env.TMUX
                                    THEN <<"has-session", "new-session", "switch-client">>
                                    ELSE <<"has-session", "new-session">>)
    /\ tmux_server' = TRUE
    /\ Exit(0, NoMessage)
    /\ UNCHANGED <<cfg, env, runs, at_invoke>>
    /\ LegacyFrame

\* run_single / run_duo in the current session: windows only
legacy_run_in_session ==
    /\ pc = "run_in_session"
    /\ loc' = LegacyLog(loc, <<"new-window">>)
    /\ Exit(0, NoMessage)
    /\ UNCHANGED <<sessions, tmux_server, cfg, env, runs, at_invoke>>
    /\ LegacyFrame

\* run_with_tmux, lines 303-323: outside tmux the prompt is handed to a vibe
\* started in the session of that name, which is created when it is missing
legacy_run_with_tmux ==
    /\ pc = "run_with_tmux"
    /\ LET name == get_session_name(cwd)
       IN  /\ sessions' = sessions \cup {name}
           /\ loc' = LegacyLog(loc, IF name \in sessions
                                    THEN <<"has-session", "attach-session", "send-keys">>
                                    ELSE <<"has-session", "new-session">>)
    /\ tmux_server' = TRUE
    /\ Exit(0, NoMessage)
    /\ UNCHANGED <<cfg, env, runs, at_invoke>>
    /\ LegacyFrame

NextLegacy ==
    \/ legacy_invoke
    \/ legacy_main
    \/ legacy_handle_session_only
    \/ legacy_run_in_session
    \/ legacy_run_with_tmux

SpecLegacy == InitLegacy /\ [][NextLegacy]_vars

\* C29: a run with a prompt creates no session; a run without a prompt
\* issues new-session at most once, and only when no session of the name
\* exists, so the sessions never hold more than the name added
C29_NoSessionForAgentWork ==
    (cfg.cmd = "vibe" /\ pc # "idle") =>
        /\ cfg.prompt # "" =>
              /\ sessions = at_invoke.sessions
              /\ LogAt("new-session", 0, "") = {}
        /\ Cardinality(LogAt("new-session", 0, "")) <= 1
        /\ LogAt("new-session", 0, "") # {} =>
              /\ get_session_name(cwd) \notin at_invoke.sessions
              /\ sessions = at_invoke.sessions \cup {get_session_name(cwd)}
        /\ LogAt("new-session", 0, "") = {} => sessions = at_invoke.sessions

\* pane `i` of the run's window was opened in the worktree registered for
\* the i-th branch of the selected pair
PaneOnWorkspace(i) ==
    [path |-> windows[loc.window_id].panes[i].dir, branch |-> loc.agent_branch[i]]
        \in Range(worktrees)

\* C30: a review run issues no git command that writes and leaves branches
\* and worktrees as they were when it started, whether it ends well or not;
\* its two panes are opened in the worktrees of the two branches of the
\* pair it selected
C30_ReviewRunChangesNothing ==
    (cfg.agent_mode = "review" /\ pc # "idle") =>
        /\ vcs_log = <<>>
        /\ branches = at_invoke.branches
        /\ worktrees = at_invoke.worktrees
        /\ dirs = at_invoke.dirs
        /\ LogAt("new-window", 0, "") # {} =>
              /\ loc.agent_branch[1] = AgentBranch(loc.base, "claude")
              /\ PaneOnWorkspace(1)
        /\ LogAt("split-window", 0, "") # {} =>
              /\ loc.agent_branch[2] = AgentBranch(loc.base, "codex")
              /\ PaneOnWorkspace(2)

C30_Witness ==
    /\ cfg.agent_mode = "review"
    /\ pc = "done"
    /\ exit_code = 0
    /\ Len(windows[loc.window_id].panes) = 2
    /\ PaneOnWorkspace(1)
    /\ PaneOnWorkspace(2)
    /\ loc.original = EarlierPrompt

\* ---------------------------------------------------------------------
\* tmux.py: kill_window and its delayed kill on a daemon thread
\* ---------------------------------------------------------------------

WindowIds == {1, 2}

\* the caller's remaining work after its calls of kill_window
WorkSteps == {0, 1}

KillFrame ==
    UNCHANGED <<gitvars, tmux_server, sessions, cfg, cwd, message, stdin_reads,
                vcs_log, runs, histvars, tmpfiles>>

InitKill ==
    /\ root = <<"/repo">>
    /\ branches = {<<"main">>}
    /\ worktrees = <<[path |-> MkPath(root, <<>>), branch |-> <<"main">>]>>
    /\ cwd = MkPath(root, <<>>)
    /\ dirs = {cwd}
    /\ basedirs = {}
    /\ dirty = {}
    /\ prompts = {}
    /\ tmux_server = TRUE
    /\ sessions = {}
    /\ windows = WindowIds
    /\ pc = "running"
    /\ cfg = [tmux_socket |-> NoneVal]
    /\ \E tb \in BOOLEAN : env = [TMUX_SOCKET_ARGS |-> <<>>, tmux_bin |-> tb]
    /\ \E n \in WorkSteps :
          loc = [tmux_log |-> <<>>, calls |-> 0, work |-> n, worked |-> 0,
                 sleeping |-> {}, deferred |-> {}]
    /\ exit_code = -1
    /\ message = NoMessage
    /\ stdin_reads = 0
    /\ vcs_log = <<>>
    /\ runs = 0
    /\ at_invoke = [branches |-> branches, worktrees |-> worktrees, dirs |-> dirs,
                    dirty |-> dirty, windows |-> windows, sessions |-> sessions,
                    prompts |-> prompts]
    /\ alloc_prev = NoAlloc
    /\ alloc_chk = NoChk
    /\ duo_prev = NoDuo
    /\ edits = 0
    /\ tmpfiles = <<>>

\* tmux kill-window -t w: the command is issued whether or not w still exists
KillIssued(l, w) == Append(l, <<"kill-window", w>>)

\* kill_window(window_id, delay=...), lines 146-161
kill_window ==
    /\ pc = "running"
    /\ loc.calls < MaxCalls
    /\ \E w \in WindowIds, delay \in BOOLEAN :
          IF ~env.tmux_bin
          THEN loc' = [loc EXCEPT !.calls = @ + 1] /\ UNCHANGED windows
          ELSE IF delay
          THEN /\ loc' = [loc EXCEPT !.calls = @ + 1,
                                     !.sleeping = @ \cup {w},
                                     !.deferred = @ \cup {w}]
               /\ UNCHANGED windows
          ELSE /\ loc' = [loc EXCEPT !.calls = @ + 1,
                                     !.tmux_log = KillIssued(@, w)]
               /\ windows' = windows \ {w}
    /\ UNCHANGED <<pc, env, exit_code>>
    /\ KillFrame

\* _delayed_kill, lines 150-152: runs on a daemon thread, which lives only
\* while the interpreter of the calling process does
delayed_kill ==
    /\ pc = "running"
    /\ \E w \in loc.sleeping :
          /\ loc' = [loc EXCEPT !.sleeping = @ \ {w}, !.tmux_log = KillIssued(@, w)]
          /\ windows' = windows \ {w}
    /\ UNCHANGED <<pc, env, exit_code>>
    /\ KillFrame

\* the caller goes on with what follows its calls of kill_window
caller_works ==
    /\ pc = "running"
    /\ loc.work > 0
    /\ loc' = [loc EXCEPT !.work = @ - 1, !.worked = @ + 1]
    /\ UNCHANGED <<pc, env, exit_code, windows>>
    /\ KillFrame

\* the main thread returns: the interpreter joins the non-daemon threads
\* only, and the daemon threads end with it
caller_exits ==
    /\ pc = "running"
    /\ loc.work = 0
    /\ pc' = "exited"
    /\ exit_code' = 0
    /\ UNCHANGED <<env, loc, windows>>
    /\ KillFrame

NextKill == kill_window \/ delayed_kill \/ caller_works \/ caller_exits

SpecKill == InitKill /\ [][NextKill]_vars

\* the threads are scheduled fairly and the caller does not stop by itself
SpecKillFair ==
    /\ SpecKill
    /\ WF_vars(delayed_kill)
    /\ WF_vars(caller_works)
    /\ WF_vars(caller_exits)

KillLogged(w) == \E i \in 1..Len(loc.tmux_log) : loc.tmux_log[i] = <<"kill-window", w>>

\* C31: a deferred kill of a window is eventually followed by the
\* kill-window command for that window, also when the caller exits before
\* the delay has elapsed
C31_DeferredKillIssued ==
    \A w \in WindowIds : (w \in loc.deferred) ~> KillLogged(w)

\* ---------------------------------------------------------------------
\* run.py: the orchestrator and the agents it has started
\* ---------------------------------------------------------------------

\* a step of the running orchestrator: every step of Next but the start of
\* a run and the steps of the operator and of the agents
OrchestratorStep == pc \notin {"idle", "done"} /\ Next

\* the orchestrator's process is scheduled and its git and tmux commands
\* return; nothing is assumed about the agents typed into the panes, which
\* never exit in this model
SpecLive == InitLive /\ [][Next]_vars /\ WF_vars(OrchestratorStep)

\* the pane that receives the last agent command of the run
LastPane == IF cfg.agent_mode = "single" THEN 1 ELSE PaneOf(2)

AllInjected == LogAt("send-keys", LastPane, "command") # {}

\* C32: the run ends with the step that types the last agent command, and
\* every run ends although no agent ever exits
C32_EndsRightAfterLastInjection ==
    /\ []((AllInjected /\ pc # "idle") => (pc = "done" /\ exit_code = 0))
    /\ ((pc = "main") ~> (pc = "done"))

C32_Witness ==
    /\ pc = "done"
    /\ exit_code = 0
    /\ cfg.agent_mode = "dual"
    /\ Len(windows[loc.window_id].panes) = 2
    /\ windows[loc.window_id].panes[1].keys # <<>>
    /\ windows[loc.window_id].panes[2].keys # <<>>

\* ---------------------------------------------------------------------
\* worktree.py: the two readers of `git worktree list --porcelain`
\* ---------------------------------------------------------------------

\* branches a listed worktree may be on; NoneVal is a detached HEAD
ListingBranches ==
    {<<"main">>, <<"a">>, AgentBranch(<<"a">>, "claude"), AgentBranch(<<"a">>, "codex"),
     AgentBranch(<<"b">>, "claude"), AgentBranch(<<"b">>, "codex"),
     AgentBranch(AgentBranch(<<"a">>, "claude"), "codex")}

\* the directory of a linked worktree
LinkedPath(r, branch) ==
    WorktreePath(MkPath(r, <<>>), IF branch = NoneVal THEN <<"d">> ELSE branch)

\* the registries git may list: the main worktree, then up to two linked
\* worktrees, no branch checked out twice
Registries(r) ==
    LET mains == {<<[path |-> MkPath(r, <<>>), branch |-> b]>> :
                     b \in {<<"main">>, AgentBranch(<<"a">>, "claude"), NoneVal}}
        linked == {<<>>}
                  \cup {<<[path |-> LinkedPath(r, b), branch |-> b]>> :
                           b \in ListingBranches \cup {NoneVal}}
                  \cup {<<[path |-> LinkedPath(r, q[1]), branch |-> q[1]],
                          [path |-> LinkedPath(r, q[2]), branch |-> q[2]]>> :
                           q \in {p \in ListingBranches \X ListingBranches : p[1] # p[2]}}
    IN  {q[1] \o q[2] :
            q \in {p \in mains \X linked :
                      \A i \in 1..Len(p[2]) : p[2][i].branch # p[1][1].branch}}

InitListing ==
    /\ root \in RootChoices
    /\ worktrees \in Registries(root)
    /\ branches = {w.branch : w \in Range(worktrees)} \ {NoneVal}
    /\ cwd = MkPath(root, <<>>)
    /\ dirs = {w.path : w \in Range(worktrees)}
    /\ basedirs = {}
    /\ dirty = {}
    /\ prompts = {}
    /\ tmux_server = FALSE
    /\ sessions = {}
    /\ windows = <<>>
    /\ pc = "ready"
    /\ cfg = CfgDefault
    /\ env = EnvDefault
    /\ loc = [listed |-> FALSE, targets |-> {}, looked_up |-> FALSE, name |-> Unset,
              found |-> NoPath, branches |-> {}]
    /\ exit_code = -1
    /\ message = NoMessage
    /\ stdin_reads = 0
    /\ vcs_log = <<>>
    /\ runs = 0
    /\ at_invoke = [branches |-> branches, worktrees |-> worktrees, dirs |-> dirs,
                    dirty |-> dirty, windows |-> windows, sessions |-> sessions,
                    prompts |-> prompts]
    /\ alloc_prev = NoAlloc
    /\ alloc_chk = NoChk
    /\ duo_prev = NoDuo
    /\ edits = 0
    /\ tmpfiles = <<>>

ListingFrame ==
    UNCHANGED <<gitvars, tmuxvars, histvars, pc, cfg, env, cwd, exit_code, message,
                stdin_reads, vcs_log, runs, tmpfiles>>

\* a caller of list_duo_targets()
call_list_duo_targets ==
    /\ ~loc.listed
    /\ loc' = [loc EXCEPT !.listed = TRUE, !.targets = list_duo_targets]
    /\ ListingFrame

\* a caller of find_existing_worktree(n), next to what
\* list_worktree_branches() returns for the same listing
call_find_existing_worktree ==
    /\ ~loc.looked_up
    /\ \E n \in ListingBranches :
          loc' = [loc EXCEPT !.looked_up = TRUE, !.name = n,
                             !.found = find_existing_worktree(n),
                             !.branches = list_worktree_branches]
    /\ ListingFrame

NextListing == call_list_duo_targets \/ call_find_existing_worktree

SpecListing == InitListing /\ [][NextListing]_vars

\* the worktree of the listing that is on `branch`
OnBranch(branch) == {w \in Range(worktrees) : w.branch = branch}

\* every proper prefix of a listed branch name
ListingBases ==
    UNION {{SubSeq(w.branch, 1, k) : k \in 0..Len(w.branch)} : w \in Range(worktrees)}

\* C33: the listing of pairs has an entry for base b exactly when the
\* worktree listing holds a worktree on b-claude and one on b-codex; the
\* entry names these two branches with the paths of their worktrees, and no
\* base has two entries
C33_PairListedIffBothWorktrees ==
    loc.listed =>
        \A b \in ListingBases :
            LET cl == OnBranch(AgentBranch(b, "claude"))
                cx == OnBranch(AgentBranch(b, "codex"))
                entries == {t \in loc.targets : t.base = b}
            IN  /\ (entries # {}) <=> (cl # {} /\ cx # {})
                /\ \A t \in entries :
                      /\ t.claude_branch = AgentBranch(b, "claude")
                      /\ t.codex_branch = AgentBranch(b, "codex")
                      /\ [path |-> t.claude_path, branch |-> t.claude_branch] \in cl
                      /\ [path |-> t.codex_path, branch |-> t.codex_branch] \in cx
                /\ Cardinality(entries) <= 1
                /\ \A t \in loc.targets : t.base \in ListingBases

\* a pair listed under a root with a blank, beside a pair-like name that is
\* not a pair
C33_Witness ==
    /\ loc.listed
    /\ Len(root) > 1
    /\ \E t \in loc.targets : t.base = <<"a">> /\ t.claude_path.rel = <<>>
    /\ Cardinality(loc.targets) = 1
    /\ Len(worktrees) = 3

\* C40: for every listing and every name n, find_existing_worktree(n) is
\* the path list_worktree_branches maps n to, and none exactly when the
\* listing has no worktree on n; also when paths contain blanks
C40_LookupAgreesWithListing ==
    loc.looked_up =>
        LET entries == {e \in loc.branches : e.branch = loc.name}
        IN  /\ (loc.found = NoPath) <=> (entries = {})
            /\ \A e \in entries : loc.found = e.path

\* ---------------------------------------------------------------------
\* config.py, worktree.py: where the allocator puts a worktree
\* ---------------------------------------------------------------------

\* one more invocation, at the root or inside a workspace
SpecInside == InitInside /\ [][Next]_vars

\* the worktrees registered since the start of the run
CreatedInRun == Range(worktrees) \ Range(at_invoke.worktrees)

\* C34: every worktree the allocator creates is
\* <repository root>/worktrees/<branch name>, wherever the tool was started
C34_WorktreesBesideRoot ==
    (cfg.cmd = "vibe" /\ pc # "idle") =>
        \A w \in CreatedInRun : w.path = WorktreePath(Root, w.branch)

\* ---------------------------------------------------------------------
\* cli.py, tmux.py, agents.py: binaries that are not installed
\* ---------------------------------------------------------------------

SpecNoAgent == InitNoAgent /\ [][Next]_vars

\* the run starts agents: `vibe` with a prompt, or `vibe review`
LaunchesAgents == (cfg.cmd = "vibe" /\ cfg.prompt # "") \/ cfg.cmd = "review"

NothingStarted ==
    /\ branches = at_invoke.branches
    /\ worktrees = at_invoke.worktrees
    /\ windows = at_invoke.windows
    /\ sessions = at_invoke.sessions
    /\ pc = "done" => exit_code # 0

\* C35: a run without tmux installed, or without the agent's binary
\* installed, ends fatally before it creates a workspace, a branch or a
\* window and before it types a command
C35_MissingBinaryFailsFirst ==
    /\ (cfg.cmd = "vibe" /\ pc # "idle" /\ ~env.tmux_bin) =>
          (NothingStarted /\ (pc = "done" => message = Msg("tmux not found")))
    /\ (LaunchesAgents /\ pc # "idle" /\ ~env.agent_bin) => NothingStarted

\* a duo run with worktrees that has just ended successfully
DuoRunSucceeded ==
    /\ cfg.cmd = "vibe"
    /\ cfg.agent_mode = "dual"
    /\ ~cfg.no_worktree
    /\ pc = "done"
    /\ exit_code = 0

\* the listing has the run's pair under the run's base name
RunPairListed ==
    \E t \in list_duo_targets :
        /\ t.base = loc.base
        /\ {t.claude_branch, t.codex_branch} = {loc.agent_branch[1], loc.agent_branch[2]}
        /\ \A i \in 1..2 :
              \E w \in Range(worktrees) :
                  /\ w.branch = loc.agent_branch[i]
                  /\ w.path \in {t.claude_path, t.codex_path}

SpecPairA == InitPairA /\ [][Next]_vars

\* names of the windows the orchestrator opens for base b: the duo window
\* and the review window
WindowsOfBase(b) == {b, b \o <<"-review">>}

\* the windows the cleanup of this run has closed
ClosedInRun ==
    {i \in 1..Len(windows) :
        i <= Len(at_invoke.windows) /\ at_invoke.windows[i].alive /\ ~windows[i].alive}

\* C37: the cleanup after a merge of base b closes only windows that were
\* opened for base b
C37_CleanupClosesOwnWindowsOnly ==
    (cfg.cmd = "merge" /\ pc # "idle") =>
        \A i \in ClosedInRun : windows[i].name \in WindowsOfBase(loc.base)

\* ---------------------------------------------------------------------
\* run.py, worktree.py: the branch a single-agent run tells the agent
\* ---------------------------------------------------------------------

\* a single-agent run with a worktree that has opened its window
SingleWindowOpened ==
    /\ cfg.cmd = "vibe"
    /\ cfg.agent_mode = "single"
    /\ ~cfg.no_worktree
    /\ pc # "idle"
    /\ LogAt("new-window", 0, "") # {}

\* C38: the window's name and the branch named in the agent's context are
\* the branch checked out in the directory the agent is started in, and a
\* branch the run has created starts at the resolved source ref
C38_LabelIsCheckedOutBranch ==
    SingleWindowOpened =>
        /\ \E w \in Range(worktrees) :
              /\ w.path = windows[loc.window_id].panes[1].dir
              /\ w.branch = windows[loc.window_id].name
              /\ w.branch = loc.ctx[1].branch
        /\ loc.start_point \in {Unset, loc.source_ref}

\* ---------------------------------------------------------------------
\* merge_cli.py: what a merge run may remove, and when
\* ---------------------------------------------------------------------

\* the run has removed a worktree, a branch or a stored prompt
SomethingRemoved ==
    \/ branches # at_invoke.branches
    \/ {w.path : w \in Range(worktrees)} # {w.path : w \in Range(at_invoke.worktrees)}
    \/ prompts # at_invoke.prompts

\* `git merge` has returned 0 and the operator has answered y
MergedAndConfirmed ==
    /\ \E i \in 1..Len(vcs_log) : vcs_log[i] = "merge"
    /\ message # Msg("Merge command exited with status")
    \* the run is past the question of _offer_cleanup
    /\ loc.task > 0 \/ pc = "cleanup_windows" \/ message = Msg("Cleanup complete")

\* the linked worktrees by path
LinkedWorktrees(reg) == {reg[i] : i \in 2..Len(reg)}

\* C39: a merge run removes a worktree, a branch or the stored prompt only
\* after a successful merge and the operator's yes; a run that ends without
\* that leaves every branch and every worktree of the pair as it found them
C39_CleanupOnlyAfterMergeAndYes ==
    (cfg.cmd = "merge" /\ pc # "idle") =>
        /\ SomethingRemoved => MergedAndConfirmed
        /\ (pc = "done" /\ ~MergedAndConfirmed) =>
              /\ branches = at_invoke.branches
              /\ LinkedWorktrees(worktrees) = LinkedWorktrees(at_invoke.worktrees)

====
